---- MODULE Spec2Model ----
(***************************************************************************)
(* Order-intake pipeline of src/lab_final/server.js: strict cart           *)
(* validation (validateAndRecalculateCart), form validation                *)
(* (validateOrderData), the handlers of POST /api/cart/sync,               *)
(* POST /api/cart/validate and POST /api/orders, with the Order schema of  *)
(* src/unnamed/part_000, the checkCartNotEmpty gate and the adminOnly      *)
(* guard of src/lab_final/middleware/auth.js, the admin routes that write  *)
(* the Product collection, and the submitOrder flow of                     *)
(* src/lab_final/public/js/checkout.js.                                    *)
(*                                                                         *)
(* Representation.                                                         *)
(*  - A JavaScript value that the code treats as a number is a record      *)
(*    [t, v]: t = "num" with v the number, t = "undef" (absent), t = "nan" *)
(*    (NaN) or t = "str" (a non-numeric string).  Prices and totals are in *)
(*    thousandths of the currency unit (0.01 is 10), quantities in halves  *)
(*    (1 is 2, 1.5 is 3), so that every product the code computes is an    *)
(*    exact integer.                                                       *)
(*  - Item names and error messages are sequences of words; String         *)
(*    .includes is the contiguous-subsequence test on them.                *)
(*  - Form fields are sequences of one-character strings.                  *)
(***************************************************************************)
EXTENDS Integers, Sequences, FiniteSets, TLC

VARIABLES
    catalog,      \* Product collection: ref -> [found, name, price]
    orders,       \* Order collection, in order of creation
    sessionCart,  \* req.session.cart of the one session
    pc,           \* position of the request in flight
    req,          \* the request in flight: body fields and session presence
    val,          \* activation of validateAndRecalculateCart
    resp,         \* the response sent (status 0: none yet)
    hist          \* history of the request in flight (not program state)

vars == <<catalog, orders, sessionCart, pc, req, val, resp, hist>>

----------------------------------------------------------------------------
(* Bounds of the model *)

MaxCartLen == 2

MaxOrders == 1

----------------------------------------------------------------------------
(* JavaScript values used as numbers *)

Num(n) == [t |-> "num", v |-> n]

Undef == [t |-> "undef", v |-> 0]

NaN == [t |-> "nan", v |-> 0]

NonNumeric == [t |-> "str", v |-> 0]

\* ToNumber: undefined and a non-numeric string convert to NaN
ToNumber(x) == IF x.t = "num" THEN x ELSE NaN

\* !x
Falsy(x) == x.t \in {"undef", "nan"} \/ (x.t = "num" /\ x.v = 0)

\* a - b
JsSub(a, b) ==
    LET x == ToNumber(a)
        y == ToNumber(b)
    IN  IF x.t = "num" /\ y.t = "num" THEN Num(x.v - y.v) ELSE NaN

\* a + b for a numeric accumulator a
JsAdd(a, b) ==
    LET x == ToNumber(a)
        y == ToNumber(b)
    IN  IF x.t = "num" /\ y.t = "num" THEN Num(x.v + y.v) ELSE NaN

\* Math.abs(a)
JsAbs(a) ==
    LET x == ToNumber(a)
    IN  IF x.t = "num" THEN Num(IF x.v < 0 THEN -x.v ELSE x.v) ELSE NaN

\* a > n and a <= n for a number literal n: false whenever a converts to NaN
JsGt(a, n) == ToNumber(a).t = "num" /\ ToNumber(a).v > n

JsLe(a, n) == ToNumber(a).t = "num" /\ ToNumber(a).v <= n

\* price * quantity: price in thousandths, quantity in halves
JsMul(price, quantity) ==
    LET x == ToNumber(price)
        y == ToNumber(quantity)
    IN  IF x.t = "num" /\ y.t = "num" THEN Num((x.v * y.v) \div 2) ELSE NaN

\* Number.isInteger(q): a number (no conversion) with no fractional half
IsInteger(q) == q.t = "num" /\ q.v % 2 = 0

----------------------------------------------------------------------------
(* Strings as sequences of words *)

\* s.includes(pat)
Includes(s, pat) ==
    \E i \in 0..(Len(s) - Len(pat)) : SubSeq(s, i + 1, i + Len(pat)) = pat

NoRef == ""

\* the text of a number inside a template string
NumText(x) == IF x.t = "num" THEN <<"#">> ELSE <<x.t>>

MsgMissingFields ==
    <<"Invalid", "cart", "item", ":", "missing", "required", "fields">>

MsgDuplicate(name) == <<"Duplicate", "product", "in", "cart", ":">> \o name

MsgInvalidQuantity(name) ==
    <<"Invalid", "quantity", "for">> \o name
        \o <<":", "must", "be", "a", "positive", "integer">>

MsgProductNotFound(name) == <<"Product", "not", "found", ":">> \o name

MsgDatabaseError(name, inner) ==
    <<"Database", "error", "validating", "product">> \o name \o <<":">> \o inner

MsgInvalidPrice(name, price) ==
    <<"Invalid", "price", "for">> \o name \o <<":">> \o NumText(price)

MsgServerError ==
    <<"Cart", "validation", "failed", "due", "to", "server", "error">>

\* the message of the fault a backend call (findById, create) throws
MsgBackendFault == <<"connect", "ECONNREFUSED">>

----------------------------------------------------------------------------
(* validateAndRecalculateCart *)

MaxManualPrice == 10000000

Refs == {"P1", "P2"}

NoProduct == [found |-> FALSE, name |-> <<>>, price |-> Undef]

Product(name, price) == [found |-> TRUE, name |-> name, price |-> price]

\* a cart line as the client sends it
Line(product, name, quantity, price) ==
    [product |-> product, name |-> name, quantity |-> quantity, price |-> price]

\* a missing-field check that accepts every line
HasMissingFieldsNever(item) == FALSE

\* !item.name || !item.quantity || !item.price
HasMissingFields(item) ==
    item.name = <<>> \/ Falsy(item.quantity) \/ Falsy(item.price)

\* item.product ? item.product.toString() : item.name
productKey(item) == IF item.product # NoRef THEN <<item.product>> ELSE item.name

\* a duplicate check that never finds the key
IsDuplicateNever(item, seenProducts) == FALSE

\* seenProducts.has(productKey)
IsDuplicate(item, seenProducts) == productKey(item) \in seenProducts

\* a quantity check that accepts every quantity
HasInvalidQuantityNever(item) == FALSE

\* item.quantity <= 0 || !Number.isInteger(item.quantity)
HasInvalidQuantity(item) == JsLe(item.quantity, 0) \/ ~IsInteger(item.quantity)

\* a price check that accepts every price
HasInvalidPriceNever(item) == FALSE

\* item.price <= 0 || item.price > 10000
HasInvalidPrice(item) == JsLe(item.price, 0) \/ JsGt(item.price, MaxManualPrice)

\* ResolvedItem trusting the client's price
ResolvedItemClientPrice(item, product) ==
    [product |-> item.product, name |-> product.name,
     quantity |-> item.quantity, price |-> item.price]

\* the validated item of a line whose product the database returned
ResolvedItem(item, product) ==
    [product |-> item.product, name |-> product.name,
     quantity |-> item.quantity, price |-> product.price]

\* a validated item that copies the client's line: { ...item }
ManualItemSpread(item) == item

\* the validated item of a manual line
ManualItem(item) ==
    [product |-> NoRef, name |-> item.name,
     quantity |-> item.quantity, price |-> item.price]

\* catch (dbError) around the lookup
InnerCatch(item, msg) ==
    IF Includes(msg, <<"Product", "not", "found">>)
    THEN msg
    ELSE MsgDatabaseError(item.name, msg)

\* catch (error) around the whole function
OuterCatch(msg) ==
    IF \/ Includes(msg, <<"Invalid", "cart", "item">>)
       \/ Includes(msg, <<"Duplicate", "product">>)
       \/ Includes(msg, <<"Invalid", "quantity">>)
       \/ Includes(msg, <<"Product", "not", "found">>)
       \/ Includes(msg, <<"Invalid", "price">>)
    THEN msg
    ELSE MsgServerError

NoVal ==
    [state |-> "none", caller |-> "none", i |-> 0, validatedItems |-> <<>>,
     recalculatedTotal |-> Num(0), seenProducts |-> {}, raised |-> <<>>,
     err |-> <<>>]

\* the activation at entry: validatedItems = [], recalculatedTotal = 0
StartVal(caller) == [NoVal EXCEPT !.state = "running", !.caller = caller]

\* throw inside the outer try: raised is the error thrown, err the error that
\* leaves the function
Throw(v, i, msg) ==
    [v EXCEPT !.state = "threw", !.i = i, !.raised = msg, !.err = OuterCatch(msg)]

\* PushItem adding the price once, whatever the quantity
PushItemPriceOnly(v, vi) ==
    [v EXCEPT !.validatedItems = Append(@, vi),
              !.recalculatedTotal = JsAdd(@, vi.price)]

\* validatedItems.push(validatedItem); recalculatedTotal += price * quantity
PushItem(v, vi) ==
    [v EXCEPT !.validatedItems = Append(@, vi),
              !.recalculatedTotal = JsAdd(@, JsMul(vi.price, vi.quantity))]

\* the for loop from line i up to the next await, throw or return
RECURSIVE ValidateLoop(_, _, _)
ValidateLoop(items, i, v) ==
    IF i > Len(items)
    THEN [v EXCEPT !.state = "returned", !.i = i]
    ELSE
        LET item == items[i]
            seen == [v EXCEPT !.seenProducts = @ \cup {productKey(item)}]
        IN  IF HasMissingFields(item)
            THEN Throw(v, i, MsgMissingFields)
            ELSE IF IsDuplicate(item, v.seenProducts)
            THEN Throw(v, i, MsgDuplicate(item.name))
            ELSE IF HasInvalidQuantity(item)
            THEN Throw(seen, i, MsgInvalidQuantity(item.name))
            ELSE IF item.product # NoRef
            THEN [seen EXCEPT !.state = "await", !.i = i]
            ELSE IF HasInvalidPrice(item)
            THEN Throw(seen, i, MsgInvalidPrice(item.name, item.price))
            ELSE ValidateLoop(items, i + 1, PushItem(seen, ManualItem(item)))

\* what Product.findById(ref).lean() can do: resolve to the stored product or
\* to null, or reject with a backend fault
LookupOutcomes(ref) ==
    {[kind |-> "value", product |-> catalog[ref]],
     [kind |-> "throw", product |-> NoProduct]}

\* the function from the return of the awaited lookup of line v.i
ResumeLookup(items, v, outcome) ==
    LET item == items[v.i]
    IN  IF outcome.kind = "throw"
        THEN Throw(v, v.i, InnerCatch(item, MsgBackendFault))
        ELSE IF ~outcome.product.found
        THEN Throw(v, v.i, InnerCatch(item, MsgProductNotFound(item.name)))
        ELSE ValidateLoop(items, v.i + 1,
                          PushItem(v, ResolvedItem(item, outcome.product)))

----------------------------------------------------------------------------
(* validateOrderData: form fields are sequences of characters *)

MinNameLen == 3

MinPhoneDigits == 10

MinPostalLen == 4

MaxPostalLen == 6

CardNumberLen == 16

ExpiryLen == 5

CvvLen == 3

\* a form field: a string, a JSON number (given by its decimal text, never 0)
\* or absent
FStr(chars) == [t |-> "str", s |-> chars]

FNum(chars) == [t |-> "num", s |-> chars]

FAbsent == [t |-> "undef", s |-> <<>>]

\* the form fields of an order request ({customerName, email, ...additionalData})
NoForm ==
    [customerName |-> FAbsent, email |-> FAbsent, phone |-> FAbsent,
     address |-> FAbsent, city |-> FAbsent, postalCode |-> FAbsent,
     paymentMethod |-> FAbsent, cardName |-> FAbsent, cardNumber |-> FAbsent,
     cardExpiry |-> FAbsent, cardCVV |-> FAbsent]

\* the field in a boolean context: "" and undefined are falsy
Truthy(f) == f.t = "num" \/ (f.t = "str" /\ f.s # <<>>)

Digits == {"0", "1", "2", "3", "4", "5", "6", "7", "8", "9"}

IsDigit(c) == c \in Digits

NotSpace(c) == c # " "

Rep(c, n) == [i \in 1..n |-> c]

\* s.trim()
RECURSIVE TrimLeft(_)
TrimLeft(s) == IF s # <<>> /\ Head(s) = " " THEN TrimLeft(Tail(s)) ELSE s

RECURSIVE TrimRight(_)
TrimRight(s) ==
    IF s # <<>> /\ s[Len(s)] = " " THEN TrimRight(SubSeq(s, 1, Len(s) - 1)) ELSE s

Trim(s) == TrimRight(TrimLeft(s))

\* s.toLowerCase(): the alphabet of the model has one upper-case letter
LowerChar(c) == IF c = "A" THEN "a" ELSE c

ToLowerCase(s) == [i \in 1..Len(s) |-> LowerChar(s[i])]

AllDigits(s) == \A i \in 1..Len(s) : IsDigit(s[i])

\* /^[^\s@]+@[^\s@]+\.[^\s@]+$/.test(s)
EmailRegexTest(s) ==
    \E a \in 1..Len(s) : \E d \in 1..Len(s) :
        /\ s[a] = "@"
        /\ s[d] = "."
        /\ 1 < a
        /\ a + 1 < d
        /\ d < Len(s)
        /\ \A i \in 1..Len(s) : i # a => s[i] \notin {" ", "@"}

\* /^\d{10,}$/.test(s.replace(/\D/g, ''))
PhoneRegexTest(s) == Len(SelectSeq(s, IsDigit)) >= MinPhoneDigits

\* /^\d{4,6}$/.test(s)
PostalRegexTest(s) ==
    AllDigits(s) /\ Len(s) >= MinPostalLen /\ Len(s) <= MaxPostalLen

\* /^\d{16}$/.test(s.replace(/\s/g, ''))
CardNumberRegexTest(s) ==
    LET t == SelectSeq(s, NotSpace)
    IN  AllDigits(t) /\ Len(t) = CardNumberLen

\* /^\d{2}\/\d{2}$/.test(s)
ExpiryRegexTest(s) ==
    /\ Len(s) = ExpiryLen
    /\ s[3] = "/"
    /\ \A i \in {1, 2, 4, 5} : IsDigit(s[i])

\* /^\d{3}$/.test(s)
CvvRegexTest(s) == AllDigits(s) /\ Len(s) = CvvLen

CARD == <<"c", "a", "r", "d">>

PAYPAL == <<"p", "a", "y", "p", "a", "l">>

BANK == <<"b", "a", "n", "k">>

\* data.paymentMethod === 'card'
IsCard(data) == data.paymentMethod = FStr(CARD)

\* !data.customerName || typeof data.customerName !== 'string'
\*   || data.customerName.trim().length < 3
NameInvalid(data) ==
    \/ ~Truthy(data.customerName)
    \/ data.customerName.t # "str"
    \/ Len(Trim(data.customerName.s)) < MinNameLen

\* !data.email || !emailRegex.test(data.email)
EmailInvalid(data) == ~Truthy(data.email) \/ ~EmailRegexTest(data.email.s)

\* data.phone && !phoneRegex.test(data.phone.replace(/\D/g, ''))
PhoneInvalid(data) == Truthy(data.phone) /\ ~PhoneRegexTest(data.phone.s)

\* data.address && data.address.trim().length === 0
AddressInvalid(data) == Truthy(data.address) /\ Len(Trim(data.address.s)) = 0

\* data.city && data.city.trim().length === 0
CityInvalid(data) == Truthy(data.city) /\ Len(Trim(data.city.s)) = 0

\* data.postalCode && !postalRegex.test(data.postalCode)
PostalInvalid(data) ==
    Truthy(data.postalCode) /\ ~PostalRegexTest(data.postalCode.s)

\* data.paymentMethod && !['card', 'paypal', 'bank'].includes(data.paymentMethod)
MethodInvalid(data) ==
    /\ Truthy(data.paymentMethod)
    /\ data.paymentMethod \notin {FStr(CARD), FStr(PAYPAL), FStr(BANK)}

\* if (data.paymentMethod === 'card') guards the four card rules
CardNameInvalid(data) ==
    /\ IsCard(data)
    /\ (~Truthy(data.cardName) \/ Len(Trim(data.cardName.s)) = 0)

CardNumberInvalid(data) ==
    /\ IsCard(data)
    /\ (~Truthy(data.cardNumber) \/ ~CardNumberRegexTest(data.cardNumber.s))

CardExpiryInvalid(data) ==
    /\ IsCard(data)
    /\ (~Truthy(data.cardExpiry) \/ ~ExpiryRegexTest(data.cardExpiry.s))

CardCvvInvalid(data) ==
    /\ IsCard(data)
    /\ (~Truthy(data.cardCVV) \/ ~CvvRegexTest(data.cardCVV.s))

\* a method call (.replace, .trim) on a truthy value that is not a string
\* throws a TypeError
FormThrows(data) ==
    \/ data.phone.t = "num"
    \/ data.address.t = "num"
    \/ data.city.t = "num"
    \/ (IsCard(data) /\ data.cardName.t = "num")
    \/ (IsCard(data) /\ data.cardNumber.t = "num")

Push(cond, msg) == IF cond THEN <<msg>> ELSE <<>>

\* the errors array, in the order the rules push to it
FormErrors(data) ==
    Push(NameInvalid(data), "Customer name is required and must be at least 3 characters")
    \o Push(EmailInvalid(data), "Valid email address is required")
    \o Push(PhoneInvalid(data), "Phone must contain at least 10 digits")
    \o Push(AddressInvalid(data), "Address cannot be empty if provided")
    \o Push(CityInvalid(data), "City cannot be empty if provided")
    \o Push(PostalInvalid(data), "Postal code must be 4-6 digits")
    \o Push(MethodInvalid(data), "Invalid payment method")
    \o Push(CardNameInvalid(data), "Cardholder name is required for card payments")
    \o Push(CardNumberInvalid(data), "Card number must be 16 digits")
    \o Push(CardExpiryInvalid(data), "Card expiry must be in MM/YY format")
    \o Push(CardCvvInvalid(data), "CVV must be 3 digits")

\* validateOrderData(data): the errors it returns, or the TypeError it throws
validateOrderData(data) ==
    IF FormThrows(data)
    THEN [threw |-> TRUE, errors |-> <<>>]
    ELSE [threw |-> FALSE, errors |-> FormErrors(data)]

----------------------------------------------------------------------------
(* Order model (mongoose schema) *)

MinQuantity == 1

\* the document handed to Order.create; status takes the schema's default
OrderDoc(customerName, email, validatedItems, recalculatedTotal) ==
    [customerName |-> Trim(customerName.s),
     email |-> Trim(ToLowerCase(email.s)),
     items |-> validatedItems,
     totalAmount |-> recalculatedTotal,
     status |-> "Pending"]

\* orderItemSchema: name required, quantity a number >= 1, price a number >= 0
ItemSchemaAccepts(it) ==
    /\ it.name # <<>>
    /\ it.quantity.t = "num" /\ it.quantity.v >= 2 * MinQuantity
    /\ it.price.t = "num" /\ it.price.v >= 0

\* orderSchema: customerName and email required, totalAmount a number >= 0
SchemaAccepts(doc) ==
    /\ doc.customerName # <<>>
    /\ doc.email # <<>>
    /\ \A i \in 1..Len(doc.items) : ItemSchemaAccepts(doc.items[i])
    /\ doc.totalAmount.t = "num" /\ doc.totalAmount.v >= 0

MsgSchemaRejects == <<"Order", "validation", "failed">>

----------------------------------------------------------------------------
(* checkCartNotEmpty and POST /api/orders *)

tolerance == 10

NoResp ==
    [status |-> 0, error |-> <<>>, details |-> <<>>, clientTotal |-> Undef,
     serverTotal |-> Undef, orderId |-> 0, total |-> Undef, location |-> "",
     ok |-> FALSE, cart |-> <<>>, validatedCart |-> <<>>,
     recalculatedTotal |-> Undef, removedItems |-> <<>>, updatedItems |-> <<>>,
     hasChanges |-> FALSE]

\* cart is the body's cart of a sync or validate request, hasItems whether an
\* order request's body has items, checkout whether the body is the one the
\* checkout page builds from the answer of a diff validation
NoReq ==
    [form |-> NoForm, items |-> <<>>, hasSession |-> FALSE,
     totalAmount |-> Undef, hasItems |-> FALSE, cart |-> <<>>,
     isArray |-> FALSE, checkout |-> FALSE]

\* ordersAtStart: the orders when the request arrived; stage: the last stage
\* the handler entered; lookups: the lookups issued, with what they returned;
\* fault: a backend call rejected; form: what validateOrderData did
\* rerun: the request resubmits the validatedCart of the diff before it;
\* catalogs: the states of the Product collection during an order request
NoHist ==
    [ordersAtStart |-> <<>>, stage |-> "none", lookups |-> <<>>,
     fault |-> FALSE, form |-> [threw |-> FALSE, errors |-> <<>>],
     rerun |-> FALSE, catalogs |-> <<>>]

MsgTypeError == <<"TypeError">>

\* res.status(400).json({ error })
Reject(status, error) == [NoResp EXCEPT !.status = status, !.error = error]

\* res.redirect(location)
Redirect(location) == [NoResp EXCEPT !.status = 302, !.location = location]

\* a gate that looks at the body's items only
GateItemsBodyOnly(body, hasSession) == IF body.hasItems THEN body.items ELSE <<>>

\* checkCartNotEmpty: the cart it inspects is req.body.items, or req.session.cart
\* when the body has no items
GateItems(body, hasSession) ==
    IF body.hasItems THEN body.items
    ELSE IF hasSession THEN sessionCart ELSE <<>>

GateRejects(body, hasSession) == Len(GateItems(body, hasSession)) = 0

\* a payload check that accepts every body
PayloadInvalidNever(body) == FALSE

\* !customerName || !email || !Array.isArray(items) || items.length === 0
PayloadInvalid(body) ==
    \/ ~Truthy(body.form.customerName)
    \/ ~Truthy(body.form.email)
    \/ ~body.hasItems
    \/ Len(body.items) = 0

\* Math.abs(recalculatedTotal - totalAmount) > tolerance
TotalMismatch(recalculatedTotal, totalAmount) ==
    JsGt(JsAbs(JsSub(recalculatedTotal, totalAmount)), tolerance)

\* catch (err) of the handler
HandlerCatch(msg) ==
    IF \/ Includes(msg, <<"Product", "not", "found">>)
       \/ Includes(msg, <<"Invalid", "cart">>)
       \/ Includes(msg, <<"Duplicate", "product">>)
    THEN Reject(400, msg)
    ELSE Reject(500, <<"Could", "not", "create", "order">>)

\* the response to a total mismatch
MismatchResponse(recalculatedTotal, totalAmount) ==
    [Reject(400, <<"Total", "amount", "mismatch">>)
        EXCEPT !.clientTotal = totalAmount, !.serverTotal = recalculatedTotal]

\* res.status(201).json({ orderId, total })
CreatedResponse(orderId, recalculatedTotal) ==
    [NoResp EXCEPT !.status = 201, !.orderId = orderId, !.total = recalculatedTotal]

\* the values of body.totalAmount the model draws when the handler reads it
Deltas == {-11, -10, 0, 5, 10, 20}

ClientTotals(r, recalculatedTotal) ==
    IF r.checkout THEN {r.totalAmount}
    ELSE {Undef, NonNumeric}
             \cup {Num(ToNumber(recalculatedTotal).v + d) : d \in Deltas}

\* a null element of a cart array
NullItem == [product |-> "null", name |-> <<>>, quantity |-> Undef, price |-> Undef]

IsNull(item) == item.product = "null"

\* Math.floor(q) of a number in halves
Floor(q) == IF q.t = "num" THEN Num(q.v - (q.v % 2)) ELSE NaN

\* Math.max(1, q)
MaxOne(q) == IF q.t = "num" THEN Num(IF q.v < 2 THEN 2 ELSE q.v) ELSE NaN

\* cleanedCart.find(cartItem => key of cartItem === productKey)
RECURSIVE FindIndex(_, _, _)
FindIndex(cleanedCart, key, k) ==
    IF k > Len(cleanedCart) THEN 0
    ELSE IF productKey(cleanedCart[k]) = key THEN k
    ELSE FindIndex(cleanedCart, key, k + 1)

\* a merge that leaves the existing line's quantity as it is
MergeQuantityNone(cleanedCart, key, item) == cleanedCart

\* existingItem.quantity += item.quantity
MergeQuantity(cleanedCart, key, item) ==
    LET k == FindIndex(cleanedCart, key, 1)
    IN  IF k = 0 THEN cleanedCart
        ELSE [cleanedCart EXCEPT ![k].quantity = JsAdd(@, item.quantity)]

\* the cart cleaning loop of /api/cart/sync from element i: the cleaned cart,
\* or the TypeError of reading a field of a null element
RECURSIVE CleanLoop(_, _, _, _)
CleanLoop(cart, i, cleanedCart, seenProducts) ==
    IF i > Len(cart) THEN [threw |-> FALSE, cleanedCart |-> cleanedCart]
    ELSE
        LET item == cart[i]
        IN  IF IsNull(item)
            THEN [threw |-> TRUE, cleanedCart |-> cleanedCart]
            ELSE IF HasMissingFields(item)
            THEN CleanLoop(cart, i + 1, cleanedCart, seenProducts)
            ELSE IF productKey(item) \in seenProducts
            THEN CleanLoop(cart, i + 1,
                           MergeQuantity(cleanedCart, productKey(item), item),
                           seenProducts)
            ELSE CleanLoop(cart, i + 1,
                     Append(cleanedCart,
                            [item EXCEPT !.quantity = MaxOne(Floor(item.quantity))]),
                     seenProducts \cup {productKey(item)})

\* a fallback total that ignores the cart
FallbackTotalZero(cleanedCart) == Num(0)

\* cleanedCart.reduce((sum, item) => sum + (item.price * item.quantity), 0)
RECURSIVE FallbackTotal(_)
FallbackTotal(cleanedCart) ==
    IF cleanedCart = <<>> THEN Num(0)
    ELSE JsAdd(FallbackTotal(SubSeq(cleanedCart, 1, Len(cleanedCart) - 1)),
               JsMul(cleanedCart[Len(cleanedCart)].price,
                     cleanedCart[Len(cleanedCart)].quantity))

\* res.json({ ok: true, cart: cleanedCart, total: recalculatedTotal })
SyncResponse(cleanedCart, recalculatedTotal) ==
    [NoResp EXCEPT !.status = 200, !.ok = TRUE, !.cart = cleanedCart,
                   !.total = recalculatedTotal]

\* AfterValidate creating the order before it compares the totals
AfterValidateCreateFirst(v, r, h) ==
    /\ val' = v
    /\ UNCHANGED catalog
    /\ orders' = IF v.state = "returned" /\ v.caller = "orders"
                 THEN Append(orders, OrderDoc(r.form.customerName, r.form.email,
                                              v.validatedItems, v.recalculatedTotal))
                 ELSE orders
    /\ IF v.state = "await"
       THEN /\ pc' = "lookup"
            /\ req' = r
            /\ resp' = NoResp
            /\ hist' = [h EXCEPT !.stage = IF v.caller = "sync" THEN "sync"
                                            ELSE "cart"]
       ELSE IF v.caller = "direct"
       THEN /\ pc' = "validated"
            /\ req' = r
            /\ resp' = NoResp
            /\ hist' = [h EXCEPT !.stage = "cart"]
       ELSE IF v.caller = "sync"
       THEN /\ pc' = "responded"
            /\ req' = r
            /\ resp' = SyncResponse(r.items,
                           IF v.state = "returned" THEN v.recalculatedTotal
                           ELSE FallbackTotal(r.items))
            /\ hist' = [h EXCEPT !.stage = "sync"]
       ELSE IF v.state = "threw"
       THEN /\ pc' = "responded"
            /\ req' = r
            /\ resp' = HandlerCatch(v.err)
            /\ hist' = [h EXCEPT !.stage = "cart"]
       ELSE \E totalAmount \in ClientTotals(r, v.recalculatedTotal) :
                /\ req' = [r EXCEPT !.totalAmount = totalAmount]
                /\ hist' = [h EXCEPT !.stage = "total"]
                /\ IF TotalMismatch(v.recalculatedTotal, totalAmount)
                   THEN /\ pc' = "responded"
                        /\ resp' = MismatchResponse(v.recalculatedTotal, totalAmount)
                   ELSE /\ pc' = "create"
                        /\ resp' = NoResp

\* the handler from the return of validateAndRecalculateCart: suspended at a
\* lookup, thrown into the catch, or on to the total check and Order.create
AfterValidate(v, r, h) ==
    /\ val' = v
    /\ UNCHANGED <<catalog, orders>>
    /\ IF v.state = "await"
       THEN /\ pc' = "lookup"
            /\ req' = r
            /\ resp' = NoResp
            /\ hist' = [h EXCEPT !.stage = IF v.caller = "sync" THEN "sync"
                                            ELSE "cart"]
       ELSE IF v.caller = "direct"
       THEN /\ pc' = "validated"
            /\ req' = r
            /\ resp' = NoResp
            /\ hist' = [h EXCEPT !.stage = "cart"]
       ELSE IF v.caller = "sync"
       THEN /\ pc' = "responded"
            /\ req' = r
            /\ resp' = SyncResponse(r.items,
                           IF v.state = "returned" THEN v.recalculatedTotal
                           ELSE FallbackTotal(r.items))
            /\ hist' = [h EXCEPT !.stage = "sync"]
       ELSE IF v.state = "threw"
       THEN /\ pc' = "responded"
            /\ req' = r
            /\ resp' = HandlerCatch(v.err)
            /\ hist' = [h EXCEPT !.stage = "cart"]
       ELSE \E totalAmount \in ClientTotals(r, v.recalculatedTotal) :
                /\ req' = [r EXCEPT !.totalAmount = totalAmount]
                /\ hist' = [h EXCEPT !.stage = "total"]
                /\ IF TotalMismatch(v.recalculatedTotal, totalAmount)
                   THEN /\ pc' = "responded"
                        /\ resp' = MismatchResponse(v.recalculatedTotal, totalAmount)
                   ELSE /\ pc' = "create"
                        /\ resp' = NoResp

\* a response sent before the cart is validated
RespondEarly(r, stage, form, response) ==
    /\ pc' = "responded"
    /\ req' = r
    /\ resp' = response
    /\ val' = NoVal
    /\ hist' = [NoHist EXCEPT !.ordersAtStart = orders, !.stage = stage,
                              !.form = form]
    /\ UNCHANGED <<catalog, orders, sessionCart>>

\* POST /api/orders up to its first await, sent by a client that is idle
\* or has just been answered
PostOrders(body, hasSession) ==
    /\ pc \in {"idle", "responded"}
    /\ Len(orders) < MaxOrders
    /\ LET checkout == "totalAmount" \in DOMAIN body
           r == [NoReq EXCEPT !.form = body.form,
                              !.items = body.items,
                              !.hasSession = hasSession,
                              !.hasItems = body.hasItems,
                              !.checkout = checkout,
                              !.totalAmount = IF checkout THEN body.totalAmount
                                              ELSE Undef]
           form == validateOrderData(body.form)
       IN  IF GateRejects(body, hasSession)
           THEN \E acceptsHtml \in BOOLEAN :
                    RespondEarly(r, "gate", NoHist.form,
                        IF acceptsHtml THEN Redirect("/cart-empty")
                        ELSE Reject(400, <<"Cart", "is", "empty">>))
           ELSE IF PayloadInvalid(body)
           THEN RespondEarly(r, "payload", NoHist.form,
                             Reject(400, <<"Invalid", "order", "payload">>))
           ELSE IF form.threw
           THEN RespondEarly(r, "form", form, HandlerCatch(MsgTypeError))
           ELSE IF Len(form.errors) > 0
           THEN RespondEarly(r, "form", form,
                    [Reject(400, <<"Validation", "failed">>)
                        EXCEPT !.details = form.errors])
           ELSE /\ AfterValidate(ValidateLoop(body.items, 1, StartVal("orders")),
                                  r, [NoHist EXCEPT !.ordersAtStart = orders,
                                                    !.catalogs = <<catalog>>])
                /\ UNCHANGED sessionCart

\* the awaited Product.findById of line val.i returns or rejects
LookupStep ==
    /\ pc = "lookup"
    /\ UNCHANGED sessionCart
    /\ \E outcome \in LookupOutcomes(req.items[val.i].product) :
          AfterValidate(
              ResumeLookup(req.items, val, outcome), req,
              [hist EXCEPT !.lookups = Append(@,
                  [line |-> val.i, ref |-> req.items[val.i].product,
                   outcome |-> outcome]),
                           !.fault = (outcome.kind = "throw")])

\* the awaited Order.create returns or rejects; then the cart is cleared and
\* the response sent
CreateStep ==
    /\ pc = "create"
    /\ pc' = "responded"
    /\ UNCHANGED <<catalog, req, val>>
    /\ LET doc == OrderDoc(req.form.customerName, req.form.email, val.validatedItems,
                           val.recalculatedTotal)
       IN  \E fault \in BOOLEAN :
               IF fault \/ ~SchemaAccepts(doc)
               THEN /\ resp' = HandlerCatch(IF fault THEN MsgBackendFault
                                            ELSE MsgSchemaRejects)
                    /\ hist' = [hist EXCEPT !.stage = "create", !.fault = fault]
                    /\ UNCHANGED <<orders, sessionCart>>
               ELSE /\ orders' = Append(orders, doc)
                    /\ IF req.hasSession
                       THEN /\ sessionCart' = <<>>
                            /\ resp' = CreatedResponse(Len(orders) + 1,
                                                       val.recalculatedTotal)
                            /\ hist' = [hist EXCEPT !.stage = "done"]
                       ELSE /\ resp' = HandlerCatch(MsgTypeError)
                            /\ hist' = [hist EXCEPT !.stage = "clear"]
                            /\ UNCHANGED sessionCart

\* the request is over; the server is ready for the next one
Finish ==
    /\ pc \in {"responded", "validated"}
    /\ pc' = "idle"
    /\ req' = NoReq
    /\ val' = NoVal
    /\ resp' = NoResp
    /\ hist' = NoHist
    /\ UNCHANGED <<catalog, orders, sessionCart>>

\* validateAndRecalculateCart(items) called on its own, up to its first await
ValidateCart(items) ==
    /\ pc = "idle"
    /\ UNCHANGED sessionCart
    /\ AfterValidate(ValidateLoop(items, 1, StartVal("direct")),
                     [NoReq EXCEPT !.items = items],
                     [NoHist EXCEPT !.ordersAtStart = orders])

\* POST /api/cart/sync up to its first await
SyncCart(body, hasSession) ==
    /\ pc = "idle"
    /\ LET r == [NoReq EXCEPT !.cart = body.cart, !.isArray = body.isArray,
                              !.hasSession = hasSession]
           h == [NoHist EXCEPT !.ordersAtStart = orders, !.stage = "sync"]
           cleaned == CleanLoop(body.cart, 1, <<>>, {})
       IN  IF ~hasSession
           THEN /\ RespondEarly(r, "sync", NoHist.form,
                                Reject(500, <<"Session", "not", "initialized">>))
           ELSE IF ~body.isArray
           THEN /\ RespondEarly(r, "sync", NoHist.form,
                                Reject(400, <<"cart", "must", "be", "an", "array">>))
           ELSE IF cleaned.threw
           THEN /\ RespondEarly(r, "sync", NoHist.form,
                                Reject(500, <<"Could", "not", "sync", "cart">>))
           ELSE /\ sessionCart' = cleaned.cleanedCart
                /\ IF Len(cleaned.cleanedCart) = 0
                   THEN /\ pc' = "responded"
                        /\ req' = r
                        /\ resp' = SyncResponse(<<>>, Num(0))
                        /\ val' = NoVal
                        /\ hist' = h
                        /\ UNCHANGED <<catalog, orders>>
                   ELSE AfterValidate(
                            ValidateLoop(cleaned.cleanedCart, 1, StartVal("sync")),
                            [r EXCEPT !.items = cleaned.cleanedCart], h)

----------------------------------------------------------------------------
(* Inputs of the order-intake specification *)

NameTea == <<"Tea">>

NameOld == <<"Old", "Name">>

NameMug == <<"Mug">>

NameMagic == <<"Duplicate", "product">>

PriceOver == Num(MaxManualPrice + 10)

\* the catalogs the requests run against
Catalogs ==
    {[ref \in Refs |-> IF ref = "P1" THEN Product(NameTea, Num(15000)) ELSE p2] :
        p2 \in {NoProduct, Product(NameMug, Num(0))}}

\* cart lines: referenced lines with a client name and price that differ from
\* the catalog's, manual lines, lines with one defect each, and a manual line
\* carrying a field of the client's own
CartLines ==
    {Line("P1", NameOld, Num(2), Num(1000)),
     Line("P1", NameMagic, Num(4), Num(15000)),
     Line("P2", NameMug, Num(2), Num(10000)),
     [product |-> NoRef, name |-> NameMug, quantity |-> Num(2),
      price |-> Num(5000), discount |-> Num(1000)],
     Line(NoRef, NameMug, Num(3), Num(5000)),
     Line(NoRef, NameTea, Num(0), Num(5000)),
     Line(NoRef, NameTea, Num(2), PriceOver),
     Line(NoRef, NameMagic, Num(-2), Num(5000)),
     Line(NoRef, <<>>, Num(2), Num(5000))}

Carts == UNION {[1..n -> CartLines] : n \in 0..MaxCartLen}

NameAnn == <<" ", "A", "n", "n">>

EmailAnn == <<"A", "@", "b", ".", "c">>

ValidForm ==
    [NoForm EXCEPT !.customerName = FStr(NameAnn), !.email = FStr(EmailAnn)]

CardNumberSpaced ==
    Rep("4", 4) \o <<" ">> \o Rep("1", 4) \o <<" ">> \o Rep("1", 4)
        \o <<" ">> \o Rep("1", 4)

ValidCardForm ==
    [ValidForm EXCEPT !.paymentMethod = FStr(CARD),
                      !.cardName = FStr(<<"A", "n", "n">>),
                      !.cardNumber = FStr(CardNumberSpaced),
                      !.cardExpiry = FStr(<<"1", "2", "/", "3", "0">>),
                      !.cardCVV = FStr(Rep("1", 3))]

ValidForms == {ValidForm, ValidCardForm}

InvalidForms ==
    {[ValidCardForm EXCEPT !.customerName = FStr(<<"A", "n">>),
                           !.cardNumber = FStr(Rep("1", 3))],
     [ValidForm EXCEPT !.customerName = FAbsent],
     [ValidForm EXCEPT !.phone = FNum(Rep("1", 3))]}

FormProfiles == ValidForms \cup InvalidForms

Body(form, hasItems, items) ==
    [form |-> form, hasItems |-> hasItems, items |-> items]

\* a valid form with every cart, an invalid one with the carts of at most one
\* line, and every form with no items at all
OrderBodies ==
    {Body(form, TRUE, items) : form \in ValidForms, items \in Carts}
        \cup {Body(form, TRUE, items) :
                 form \in InvalidForms, items \in {c \in Carts : Len(c) <= 1}}
        \cup {Body(form, FALSE, <<>>) : form \in FormProfiles}

Init ==
    /\ catalog \in Catalogs
    /\ orders = <<>>
    /\ sessionCart = <<>>
    /\ pc = "idle"
    /\ req = NoReq
    /\ val = NoVal
    /\ resp = NoResp
    /\ hist = NoHist

Next ==
    \/ /\ pc = "idle"
       /\ \E body \in OrderBodies : \E hasSession \in BOOLEAN :
              PostOrders(body, hasSession)
    \/ LookupStep
    \/ CreateStep
    \/ Finish

Spec == Init /\ [][Next]_vars

----------------------------------------------------------------------------
(* Inputs of the cart-validation specification *)

NameP1 == <<"P1">>

\* referenced lines with every quantity and a claimed price that never is the
\* catalog's; manual lines with every quantity and price; a line with no name
RichLines ==
    {Line(ref, NameOld, q, p) :
        ref \in Refs, q \in {Num(0), Num(2), Num(3), Num(-2)},
        p \in {Num(0), Num(5000)}}
    \cup {Line(NoRef, n, q, p) :
        n \in {NameMug, NameP1}, q \in {Num(0), Num(2), Num(3), Num(-2)},
        p \in {Num(0), Num(5000), Num(-5000), PriceOver}}
    \cup {Line(NoRef, <<>>, Num(2), Num(5000))}

RichCarts == UNION {[1..n -> RichLines] : n \in 0..MaxCartLen}

NextCart ==
    \/ /\ pc = "idle"
       /\ \E items \in RichCarts : ValidateCart(items)
    \/ LookupStep
    \/ Finish

SpecCart == Init /\ [][NextCart]_vars

----------------------------------------------------------------------------
(* Vocabulary of the properties *)

\* the CartError kind of an error validateAndRecalculateCart throws, read off
\* the words its message starts with
ErrorKind(msg) ==
    IF SubSeq(msg, 1, 3) = <<"Invalid", "cart", "item">> THEN "MissingField"
    ELSE IF SubSeq(msg, 1, 2) = <<"Duplicate", "product">> THEN "DuplicateProduct"
    ELSE IF SubSeq(msg, 1, 2) = <<"Invalid", "quantity">> THEN "InvalidQuantity"
    ELSE IF SubSeq(msg, 1, 3) = <<"Product", "not", "found">> THEN "ProductNotFound"
    ELSE IF SubSeq(msg, 1, 2) = <<"Invalid", "price">> THEN "InvalidPrice"
    ELSE "BackendFailure"

\* strict validation of req.items has ended (returned or thrown)
ValidationEnded == val.state \in {"returned", "threw"}

\* the lookups issued for line k
LookupsOf(k) ==
    {j \in 1..Len(hist.lookups) :
        /\ hist.lookups[j].line = k
        /\ hist.lookups[j].ref = req.items[k].product}

\* C1: when strict validation succeeds, every returned line with a productRef
\* carries the name and the price the catalog lookup returned for that ref,
\* whatever name and price the client declared; and a lookup that returns
\* nothing makes validation fail with ProductNotFound at that line, with no
\* line returned for it.
C1_CatalogPriceWins ==
    /\ val.state = "returned" =>
          /\ Len(val.validatedItems) = Len(req.items)
          /\ \A k \in 1..Len(req.items) :
                req.items[k].product # NoRef =>
                    \E j \in LookupsOf(k) :
                        LET out == hist.lookups[j].outcome
                        IN  /\ out.kind = "value"
                            /\ out.product.found
                            /\ val.validatedItems[k].product = req.items[k].product
                            /\ val.validatedItems[k].name = out.product.name
                            /\ val.validatedItems[k].price = out.product.price
    /\ \A j \in 1..Len(hist.lookups) :
          (/\ hist.lookups[j].outcome.kind = "value"
           /\ ~hist.lookups[j].outcome.product.found) =>
              /\ val.state = "threw"
              /\ val.i = hist.lookups[j].line
              /\ ErrorKind(val.err) = "ProductNotFound"
              /\ Len(val.validatedItems) < hist.lookups[j].line

\* a cart with two referenced lines validated, the client's name and price of
\* each differing from the catalog's
C1_Witness ==
    /\ val.state = "returned"
    /\ Len(req.items) = 2
    /\ \A k \in 1..2 :
          /\ req.items[k].product # NoRef
          /\ req.items[k].price # val.validatedItems[k].price
          /\ req.items[k].name # val.validatedItems[k].name

\* the identity key of a cart line: its productRef if present, else its name
IdentityKey(line) == IF line.product # NoRef THEN <<line.product>> ELSE line.name

\* two lines of the cart share an identity key
SharesKey(items) ==
    \E i \in 1..Len(items) : \E j \in 1..Len(items) :
        i < j /\ IdentityKey(items[i]) = IdentityKey(items[j])

\* the first line that repeats the identity key of an earlier line
FirstRepeat(items) ==
    CHOOSE j \in 1..Len(items) :
        /\ \E i \in 1..(j - 1) : IdentityKey(items[i]) = IdentityKey(items[j])
        /\ \A k \in 1..(j - 1) : \A i \in 1..(k - 1) :
              IdentityKey(items[i]) # IdentityKey(items[k])

\* C5 as claimed: a cart in which two lines share an identity key fails strict
\* validation with DuplicateProduct, whatever other defects its lines have.
C5_DuplicateWhateverElse ==
    (pc = "validated" /\ SharesKey(req.items)) =>
        (val.state = "threw" /\ ErrorKind(val.err) = "DuplicateProduct")

\* C5 as amended: a cart in which two lines share an identity key always fails
\* strict validation, at the first line that repeats an earlier key or before
\* it; the error is DuplicateProduct exactly when all lines before that line
\* were validated and that line has its name, quantity and price (otherwise
\* it is the error of the earlier defect, first-fatal-wins).
C5_DuplicateFirstFatal ==
    (pc = "validated" /\ SharesKey(req.items)) =>
        LET j == FirstRepeat(req.items)
        IN  /\ val.state = "threw"
            /\ val.i <= j
            /\ ErrorKind(val.err) = "DuplicateProduct" <=>
                  (/\ Len(val.validatedItems) = j - 1
                   /\ ~HasMissingFields(req.items[j]))

\* DuplicateProduct reported for a repeating line whose quantity is invalid too
C5_Witness ==
    /\ pc = "validated"
    /\ SharesKey(req.items)
    /\ val.state = "threw"
    /\ ErrorKind(val.err) = "DuplicateProduct"
    /\ val.i = FirstRepeat(req.items)
    /\ HasInvalidQuantity(req.items[val.i])

\* a number that is not a positive integer (quantities are in halves)
NotPositiveInteger(q) == q.t = "num" /\ (q.v <= 0 \/ q.v % 2 # 0)

\* a line with no defect of its own: name, a positive integer quantity, a
\* non-zero price and, for a manual line, a price within (0, 10000]
DefectFree(line) ==
    /\ line.name # <<>>
    /\ line.quantity.t = "num" /\ line.quantity.v > 0 /\ line.quantity.v % 2 = 0
    /\ line.price.t = "num" /\ line.price.v # 0
    /\ line.product = NoRef =>
          (line.price.v > 0 /\ line.price.v <= MaxManualPrice)

\* line k has a quantity that is not a positive integer, and that is the only
\* defect of the cart: the line is otherwise sound, so are the other lines,
\* no key repeats and every lookup issued found its product
QuantityOnlyDefect(items, k) ==
    /\ NotPositiveInteger(items[k].quantity)
    /\ DefectFree([items[k] EXCEPT !.quantity = Num(2)])
    /\ \A i \in 1..Len(items) : i # k => DefectFree(items[i])
    /\ ~SharesKey(items)
    /\ \A j \in 1..Len(hist.lookups) :
          /\ hist.lookups[j].outcome.kind = "value"
          /\ hist.lookups[j].outcome.product.found

\* C6 as claimed: a cart whose only defect is a line with a non-positive
\* (0 included) or non-integer quantity fails strict validation with
\* InvalidQuantity and no other error kind.
C6_BadQuantityIsInvalidQuantity ==
    (pc = "validated" /\ \E k \in 1..Len(req.items) : QuantityOnlyDefect(req.items, k))
        => (val.state = "threw" /\ ErrorKind(val.err) = "InvalidQuantity")

----------------------------------------------------------------------------
(* Properties of POST /api/orders *)

\* the request in flight has created an order
Persisted == Len(orders) = Len(hist.ordersAtStart) + 1

\* |a - b| <= 0.01 for two numbers
WithinTolerance(a, b) ==
    /\ a.t = "num"
    /\ b.t = "num"
    /\ a.v - b.v <= tolerance
    /\ b.v - a.v <= tolerance

\* C2 as claimed: a request that passed the payload, form and cart stages is
\* persisted iff |recalculatedTotal - clientDeclaredTotal| <= 0.01, for every
\* client total, an absent or non-numeric one included; otherwise it is
\* rejected with TotalMismatch and the response carries both totals.
\* (Requests whose Order.create or cart-clear threw are left out.)
C2_PersistIffWithinTolerance ==
    (pc = "responded" /\ hist.stage \in {"total", "done"}) =>
        /\ Persisted <=> WithinTolerance(val.recalculatedTotal, req.totalAmount)
        /\ ~Persisted =>
              /\ resp.status = 400
              /\ resp.error = <<"Total", "amount", "mismatch">>
              /\ resp.clientTotal = req.totalAmount
              /\ resp.serverTotal = val.recalculatedTotal

\* the sum of price x quantity over order lines (quantities are in halves)
RECURSIVE SumLines(_)
SumLines(items) ==
    IF items = <<>> THEN 0
    ELSE (Head(items).price.v * Head(items).quantity.v) \div 2
             + SumLines(Tail(items))

\* C3: every persisted order's totalAmount is the sum of price x quantity over
\* its own items, and the order a request creates holds exactly the lines and
\* the total strict validation returned for that request.
C3_OrderTotalIsSumOfItems ==
    /\ \A k \in 1..Len(orders) :
          orders[k].totalAmount = Num(SumLines(orders[k].items))
    /\ (pc = "responded" /\ Persisted) =>
          /\ orders[Len(orders)].items = val.validatedItems
          /\ orders[Len(orders)].totalAmount = val.recalculatedTotal

\* an order of two lines whose prices and total differ from the client's
C3_Witness ==
    /\ pc = "responded"
    /\ Persisted
    /\ Len(orders[Len(orders)].items) = 2
    /\ orders[Len(orders)].items[1].price # req.items[1].price
    /\ orders[Len(orders)].items[2].quantity = Num(4)
    /\ orders[Len(orders)].totalAmount # req.totalAmount

\* C4: a request rejected by the EmptyCart gate, as MalformedPayload, as
\* FormValidation, by any CartError or as TotalMismatch leaves the persisted
\* orders as they were, and no order exists before Order.create returns.
C4_RejectedCreatesNoOrder ==
    /\ (/\ pc = "responded"
        /\ hist.stage \in {"gate", "payload", "form", "cart", "total"}) =>
          (resp.status # 201 /\ orders = hist.ordersAtStart)
    /\ pc \in {"lookup", "create"} => orders = hist.ordersAtStart

\* a TotalMismatch rejection of a validated two-line cart
C4_Witness ==
    /\ pc = "responded"
    /\ hist.stage = "total"
    /\ resp.status = 400
    /\ Len(val.validatedItems) = 2
    /\ orders = hist.ordersAtStart

\* the request was rejected for a client-input error: MalformedPayload,
\* FormValidation, or a strict-validation failure of kind MissingField,
\* InvalidQuantity or InvalidPrice
ClientInputRejection ==
    /\ pc = "responded"
    /\ \/ hist.stage = "payload"
       \/ hist.stage = "form" /\ Len(hist.form.errors) > 0
       \/ /\ hist.stage = "cart"
          /\ val.state = "threw"
          /\ ErrorKind(val.raised) \in
                {"MissingField", "InvalidQuantity", "InvalidPrice"}

\* C7 as claimed: every client-input rejection is answered with HTTP 400
\* carrying the validation error message, never with HTTP 500.
C7_ClientInputRejectionIs400 ==
    ClientInputRejection =>
        /\ resp.status = 400
        /\ hist.stage = "cart" => resp.error = val.raised

\* C8 as claimed: when the catalog lookup or Order.create throws a backend
\* fault, the response is HTTP 500 with the fixed generic message and carries
\* no text of the underlying error, whatever the names of the cart's lines.
C8_BackendFaultIsGeneric500 ==
    (pc = "responded" /\ hist.fault) =>
        /\ resp.status = 500
        /\ resp.error = <<"Could", "not", "create", "order">>
        /\ ~Includes(resp.error, MsgBackendFault)

----------------------------------------------------------------------------
(* Inputs of the form-validation specification *)

FormNames == {FStr(NameAnn), FStr(<<"A", "n">>), FStr(<<"A", " ", " ">>), FAbsent}

FormEmails == {FStr(EmailAnn), FStr(<<"A", "@", "b">>), FAbsent}

FormPhones ==
    {FAbsent, FStr(Rep("1", 5) \o <<"-">> \o Rep("1", 5)), FStr(Rep("1", 3)),
     FNum(Rep("1", 3))}

FormAddresses == {FAbsent, FStr(<<" ">>), FStr(<<"x">>)}

FormCities == {FAbsent, FStr(<<" ">>)}

FormPostalCodes == {FAbsent, FStr(Rep("1", 4)), FStr(Rep("1", 7))}

FormMethods == {FAbsent, FStr(CARD), FStr(PAYPAL), FStr(<<"c", "a", "s", "h">>)}

FormCardNames == {FAbsent, FStr(<<"A", "n", "n">>), FStr(<<" ">>)}

FormCardNumbers ==
    {FAbsent, FStr(CardNumberSpaced), FStr(Rep("1", 3)), FNum(Rep("1", 16))}

FormCardExpiries ==
    {FAbsent, FStr(<<"1", "2", "/", "3", "0">>), FStr(Rep("1", 4))}

FormCardCvvs == {FAbsent, FStr(Rep("1", 3)), FStr(Rep("1", 4))}

\* the card fields sent along: every combination with a card payment, none or
\* four invalid ones with any other method
CardFieldSets(method) ==
    IF method = FStr(CARD)
    THEN {[cardName |-> a, cardNumber |-> b, cardExpiry |-> c, cardCVV |-> d] :
            a \in FormCardNames, b \in FormCardNumbers,
            c \in FormCardExpiries, d \in FormCardCvvs}
    ELSE {[cardName |-> FAbsent, cardNumber |-> FAbsent, cardExpiry |-> FAbsent,
           cardCVV |-> FAbsent],
          [cardName |-> FStr(<<" ">>), cardNumber |-> FStr(Rep("1", 3)),
           cardExpiry |-> FStr(Rep("1", 4)), cardCVV |-> FStr(Rep("1", 4))]}

FormOf(n, e, ph, ad, ci, po, m, cf) ==
    [customerName |-> n, email |-> e, phone |-> ph, address |-> ad,
     city |-> ci, postalCode |-> po, paymentMethod |-> m,
     cardName |-> cf.cardName, cardNumber |-> cf.cardNumber,
     cardExpiry |-> cf.cardExpiry, cardCVV |-> cf.cardCVV]

FormCart == <<Line(NoRef, NameMug, Num(2), Num(5000))>>

NextForm ==
    \/ /\ pc = "idle"
       /\ \E n \in FormNames, e \in FormEmails, ph \in FormPhones,
             ad \in FormAddresses, ci \in FormCities, po \in FormPostalCodes,
             m \in FormMethods :
             \E cf \in CardFieldSets(m) :
                 PostOrders(Body(FormOf(n, e, ph, ad, ci, po, m, cf), TRUE,
                                 FormCart), TRUE)
    \/ CreateStep
    \/ Finish

SpecForm == Init /\ [][NextForm]_vars

----------------------------------------------------------------------------
(* Properties of validateOrderData *)

Rules ==
    {"name", "email", "phone", "address", "city", "postalCode", "method",
     "cardName", "cardNumber", "cardExpiry", "cardCVV"}

CardRules == {"cardName", "cardNumber", "cardExpiry", "cardCVV"}

MessageOf(rule) ==
    CASE rule = "name" -> "Customer name is required and must be at least 3 characters"
      [] rule = "email" -> "Valid email address is required"
      [] rule = "phone" -> "Phone must contain at least 10 digits"
      [] rule = "address" -> "Address cannot be empty if provided"
      [] rule = "city" -> "City cannot be empty if provided"
      [] rule = "postalCode" -> "Postal code must be 4-6 digits"
      [] rule = "method" -> "Invalid payment method"
      [] rule = "cardName" -> "Cardholder name is required for card payments"
      [] rule = "cardNumber" -> "Card number must be 16 digits"
      [] rule = "cardExpiry" -> "Card expiry must be in MM/YY format"
      [] rule = "cardCVV" -> "CVV must be 3 digits"

\* the field is provided: not absent and not empty
Provided(f) == f.t # "undef" /\ f.s # <<>>

DigitCount(chars) == Cardinality({i \in 1..Len(chars) : chars[i] \in Digits})

Blank(chars) == \A i \in 1..Len(chars) : chars[i] = " "

\* the rules of the order form, as the specification lists them
RuleViolated(rule, data) ==
    CASE rule = "name" ->
            ~(Provided(data.customerName) /\ data.customerName.t = "str"
              /\ Len(Trim(data.customerName.s)) >= 3)
      [] rule = "email" ->
            ~(Provided(data.email) /\ EmailRegexTest(data.email.s))
      [] rule = "phone" ->
            Provided(data.phone) /\ DigitCount(data.phone.s) < 10
      [] rule = "address" -> Provided(data.address) /\ Blank(data.address.s)
      [] rule = "city" -> Provided(data.city) /\ Blank(data.city.s)
      [] rule = "postalCode" ->
            /\ Provided(data.postalCode)
            /\ ~(/\ DigitCount(data.postalCode.s) = Len(data.postalCode.s)
                 /\ Len(data.postalCode.s) \in 4..6)
      [] rule = "method" ->
            /\ Provided(data.paymentMethod)
            /\ data.paymentMethod.s \notin {CARD, PAYPAL, BANK}
      [] rule = "cardName" ->
            /\ data.paymentMethod.s = CARD
            /\ ~(Provided(data.cardName) /\ ~Blank(data.cardName.s))
      [] rule = "cardNumber" ->
            /\ data.paymentMethod.s = CARD
            /\ ~(/\ Provided(data.cardNumber)
                 /\ DigitCount(data.cardNumber.s) = 16
                 /\ \A i \in 1..Len(data.cardNumber.s) :
                       data.cardNumber.s[i] \in Digits \cup {" "})
      [] rule = "cardExpiry" ->
            /\ data.paymentMethod.s = CARD
            /\ ~(Provided(data.cardExpiry) /\ ExpiryRegexTest(data.cardExpiry.s))
      [] rule = "cardCVV" ->
            /\ data.paymentMethod.s = CARD
            /\ ~(/\ Provided(data.cardCVV)
                 /\ DigitCount(data.cardCVV.s) = 3
                 /\ Len(data.cardCVV.s) = 3)

\* how often msg occurs in the errors array
Occurrences(errors, msg) == Cardinality({i \in 1..Len(errors) : errors[i] = msg})

\* the handler has run validateOrderData on the request in flight
FormStageReached ==
    pc # "idle" /\ hist.stage \in {"form", "cart", "total", "create", "clear", "done"}

\* the response is the FormValidation rejection listing the errors
IsFormValidationResponse ==
    /\ pc = "responded"
    /\ hist.stage = "form"
    /\ resp.status = 400
    /\ resp.error = <<"Validation", "failed">>
    /\ resp.details = hist.form.errors

\* C10 as claimed, for the requests that reach form validation: validateOrderData
\* returns exactly one message per violated rule (collect-all), the card rules
\* apply only when the method is card, and the request is rejected with
\* FormValidation listing all the messages iff at least one rule is violated.
C10_FormValidationCollectsAll ==
    FormStageReached =>
        LET violated == {rule \in Rules : RuleViolated(rule, req.form)}
        IN  /\ ~hist.form.threw
            /\ \A rule \in Rules :
                  Occurrences(hist.form.errors, MessageOf(rule)) =
                      (IF rule \in violated THEN 1 ELSE 0)
            /\ Len(hist.form.errors) = Cardinality(violated)
            /\ req.form.paymentMethod # FStr(CARD) =>
                  \A rule \in CardRules :
                      Occurrences(hist.form.errors, MessageOf(rule)) = 0
            /\ violated # {} <=> IsFormValidationResponse

----------------------------------------------------------------------------
(* Inputs of the session specification: cart syncs and order requests *)

\* raw cart lines: lines that share a key (by ref, by name, a name equal to a
\* ref), a negative fractional quantity, a line that is dropped
SyncLines ==
    {Line("P1", NameOld, Num(2), Num(1000)),
     Line("P1", NameTea, Num(4), Num(15000)),
     Line("P2", NameMug, Num(2), Num(5000)),
     Line(NoRef, NameMug, Num(2), Num(5000)),
     Line(NoRef, NameP1, Num(2), Num(5000)),
     Line(NoRef, NameTea, Num(-3), Num(5000)),
     Line(NoRef, NameTea, Num(0), Num(5000))}

\* every cart of these lines, and carts with a null element
SyncCarts ==
    UNION {[1..n -> SyncLines] : n \in 0..MaxCartLen}
        \cup {<<NullItem>>, <<Line(NoRef, NameMug, Num(2), Num(5000)), NullItem>>}

SyncBodies ==
    {[isArray |-> TRUE, cart |-> c] : c \in SyncCarts}
        \cup {[isArray |-> FALSE, cart |-> <<>>]}

\* order requests with no items, an empty items array and one manual line
GateBodies ==
    {Body(ValidForm, FALSE, <<>>), Body(ValidForm, TRUE, <<>>),
     Body(ValidForm, TRUE, <<Line(NoRef, NameMug, Num(2), Num(5000))>>)}

\* order requests that fail the form or strict validation
RejectedBodies ==
    LET mug == Line(NoRef, NameMug, Num(2), Num(5000))
    IN  {Body(ValidForm, TRUE, <<mug, mug>>),
         Body(ValidForm, TRUE, <<Line(NoRef, NameMug, Num(3), Num(5000))>>),
         Body([ValidForm EXCEPT !.phone = FNum(Rep("1", 3))], TRUE, <<mug>>)}

----------------------------------------------------------------------------
(* Inputs of the diff-validation specification *)

\* referenced lines claiming the catalog's price, a price within 0.01 of it
\* and other prices, under the catalog's name and another; a manual line;
\* lines with a missing field
DiffLines ==
    {Line("P1", NameTea, Num(2), Num(15000)),
     Line("P1", NameOld, Num(2), Num(1000)),
     Line("P1", NameTea, Num(4), Num(15010)),
     Line("P1", NameTea, Num(2), Num(14980)),
     Line("P2", NameMug, Num(2), Num(5000)),
     Line("P2", NameMug, Num(0), Num(5000)),
     Line(NoRef, NameMug, Num(3), Num(5000)),
     Line(NoRef, <<>>, Num(2), Num(5000))}

DiffCarts ==
    UNION {[1..n -> DiffLines] : n \in 0..MaxCartLen}
        \cup {<<NullItem>>, <<Line(NoRef, NameMug, Num(2), Num(5000)), NullItem>>}

DiffBodies ==
    {[isArray |-> TRUE, cart |-> c] : c \in DiffCarts}
        \cup {[isArray |-> FALSE, cart |-> <<>>]}

----------------------------------------------------------------------------
(* POST /api/cart/validate: diff validation *)

PriceTolerance == 10

\* a price check that never reports a change
PriceChangedNever(product, item) == FALSE

\* Math.abs(product.price - item.price) > 0.01
PriceChanged(product, item) ==
    JsGt(JsAbs(JsSub(product.price, item.price)), PriceTolerance)

\* { ...item, reason }
Removed(item, reason) == [item |-> item, reason |-> reason]

\* { ...item, oldPrice: item.price, newPrice: product.price, reason }
Updated(item, product) ==
    [item |-> item, oldPrice |-> item.price, newPrice |-> product.price,
     reason |-> "Price updated"]

\* the locals of the handler at entry
NoDiff ==
    [threw |-> FALSE, fault |-> FALSE, validatedCart |-> <<>>,
     removedItems |-> <<>>, updatedItems |-> <<>>,
     recalculatedTotal |-> Num(0), lookups |-> <<>>]

\* validatedCart.push(item); recalculatedTotal += item.price * item.quantity
KeepItem(d, item) ==
    [d EXCEPT !.validatedCart = Append(@, item),
              !.recalculatedTotal = JsAdd(@, JsMul(item.price, item.quantity))]

\* the loop of the handler from element i; the lookup of line faultAt, if
\* that line is looked up, rejects with a backend fault
RECURSIVE DiffLoop(_, _, _, _)
DiffLoop(cart, i, d, faultAt) ==
    IF i > Len(cart) THEN d
    ELSE
        LET item == cart[i]
            product == catalog[item.product]
            looked(outcome) ==
                [d EXCEPT !.lookups = Append(@,
                    [line |-> i, ref |-> item.product, outcome |-> outcome])]
            found == looked([kind |-> "value", product |-> product])
            corrected ==
                [item EXCEPT !.price = IF PriceChanged(product, item)
                                       THEN product.price ELSE @,
                             !.name = product.name]
        IN  IF IsNull(item)
            THEN [d EXCEPT !.threw = TRUE]
            ELSE IF HasMissingFields(item)
            THEN DiffLoop(cart, i + 1,
                     [d EXCEPT !.removedItems =
                         Append(@, Removed(item, "Invalid item data"))],
                     faultAt)
            ELSE IF item.product = NoRef
            THEN DiffLoop(cart, i + 1, KeepItem(d, item), faultAt)
            ELSE IF faultAt = i
            THEN [looked([kind |-> "throw", product |-> NoProduct])
                     EXCEPT !.threw = TRUE, !.fault = TRUE]
            ELSE IF ~product.found
            THEN DiffLoop(cart, i + 1,
                     [found EXCEPT !.removedItems =
                         Append(@, Removed(item, "Product no longer available"))],
                     faultAt)
            ELSE DiffLoop(cart, i + 1,
                     KeepItem(
                         IF PriceChanged(product, item)
                         THEN [found EXCEPT !.updatedItems =
                                  Append(@, Updated(item, product))]
                         ELSE found,
                         corrected),
                     faultAt)

\* res.json({ validatedCart, recalculatedTotal, removedItems, updatedItems,
\*            hasChanges })
DiffResponse(d) ==
    [NoResp EXCEPT !.status = 200,
                   !.validatedCart = d.validatedCart,
                   !.recalculatedTotal = d.recalculatedTotal,
                   !.removedItems = d.removedItems,
                   !.updatedItems = d.updatedItems,
                   !.hasChanges = Len(d.removedItems) > 0 \/ Len(d.updatedItems) > 0]

\* a diff validation that stores the cart it validated in the session
PostCartValidateStoring(body, faultAt, rerun) ==
    /\ pc' = "responded"
    /\ req' = [NoReq EXCEPT !.cart = body.cart, !.isArray = body.isArray]
    /\ val' = NoVal
    /\ UNCHANGED <<catalog, orders>>
    /\ LET d == DiffLoop(body.cart, 1, NoDiff, faultAt)
           h == [NoHist EXCEPT !.ordersAtStart = orders, !.stage = "diff",
                               !.rerun = rerun]
       IN  IF ~body.isArray
           THEN /\ resp' = Reject(400, <<"cart", "must", "be", "an", "array">>)
                /\ hist' = h
                /\ UNCHANGED sessionCart
           ELSE /\ hist' = [h EXCEPT !.lookups = d.lookups, !.fault = d.fault]
                /\ resp' = IF d.threw
                           THEN Reject(500, <<"Could", "not", "validate", "cart">>)
                           ELSE DiffResponse(d)
                /\ sessionCart' = d.validatedCart

\* POST /api/cart/validate
PostCartValidate(body, faultAt, rerun) ==
    /\ pc' = "responded"
    /\ req' = [NoReq EXCEPT !.cart = body.cart, !.isArray = body.isArray]
    /\ val' = NoVal
    /\ UNCHANGED <<catalog, orders, sessionCart>>
    /\ LET d == DiffLoop(body.cart, 1, NoDiff, faultAt)
           h == [NoHist EXCEPT !.ordersAtStart = orders, !.stage = "diff",
                               !.rerun = rerun]
       IN  IF ~body.isArray
           THEN /\ resp' = Reject(400, <<"cart", "must", "be", "an", "array">>)
                /\ hist' = h
           ELSE /\ hist' = [h EXCEPT !.lookups = d.lookups, !.fault = d.fault]
                /\ resp' = IF d.threw
                           THEN Reject(500, <<"Could", "not", "validate", "cart">>)
                           ELSE DiffResponse(d)

\* a client sends its cart to be validated
ValidateRequest ==
    /\ pc = "idle"
    /\ \E body \in DiffBodies : \E faultAt \in 0..Len(body.cart) :
           PostCartValidate(body, faultAt, FALSE)

\* the client sends the validatedCart it was answered to be validated again
ValidateAgain ==
    /\ pc = "responded"
    /\ hist.stage = "diff"
    /\ ~hist.rerun
    /\ resp.status = 200
    /\ \E faultAt \in 0..Len(resp.validatedCart) :
           PostCartValidate([isArray |-> TRUE, cart |-> resp.validatedCart],
                            faultAt, TRUE)

NextDiff ==
    \/ ValidateRequest
    \/ ValidateAgain
    \/ Finish

SpecDiff == Init /\ [][NextDiff]_vars

----------------------------------------------------------------------------
(* The session specification: cart syncs, diff validations and order
   requests of one session *)

NextSession ==
    \/ /\ pc = "idle"
       /\ \E body \in SyncBodies : \E hasSession \in BOOLEAN :
              /\ hasSession \/ Len(body.cart) <= 1
              /\ SyncCart(body, hasSession)
    \/ /\ pc = "idle"
       /\ \E body \in {b \in DiffBodies :
                            b.cart = <<>> \/ (Len(b.cart) = 1 /\ b.cart[1].product = "P1")} :
              \E faultAt \in 0..Len(body.cart) :
                  PostCartValidate(body, faultAt, FALSE)
    \/ /\ pc = "idle"
       /\ \/ \E body \in GateBodies : \E hasSession \in BOOLEAN :
                 PostOrders(body, hasSession)
          \/ \E body \in RejectedBodies : PostOrders(body, TRUE)
    \/ LookupStep
    \/ CreateStep
    \/ Finish

SpecSession == Init /\ [][NextSession]_vars

----------------------------------------------------------------------------
(* Properties of the EmptyCart gate *)

\* the request in flight is an order request that has been answered
OrderAnswered ==
    /\ pc = "responded"
    /\ hist.stage \in {"gate", "payload", "form", "cart", "total", "create",
                       "clear", "done"}

\* the answer of the EmptyCart gate: 400 'Cart is empty' or a redirect
GateAnswer ==
    /\ hist.stage = "gate"
    /\ \/ resp.status = 400 /\ resp.error = <<"Cart", "is", "empty">>
       \/ resp.status = 302 /\ resp.location = "/cart-empty"

\* C11 as claimed: an order request whose body items are absent or empty is
\* rejected by the EmptyCart gate, whatever the session's working cart holds.
C11_NoItemsRejectedByGate ==
    (OrderAnswered /\ (~req.hasItems \/ req.items = <<>>)) => GateAnswer

\* C11 as amended: an order request whose body items are absent or empty is
\* always rejected and creates no order and issues no lookup; it is the
\* EmptyCart gate that rejects it, except when the items are absent and the
\* session holds a non-empty working cart: then the gate lets it pass and the
\* handler rejects it with 400 'Invalid order payload'.
C11_NoItemsRejectedByGateOrPayload ==
    (OrderAnswered /\ (~req.hasItems \/ req.items = <<>>)) =>
        /\ orders = hist.ordersAtStart
        /\ hist.lookups = <<>>
        /\ IF ~req.hasItems /\ req.hasSession /\ sessionCart # <<>>
           THEN /\ hist.stage = "payload"
                /\ resp.status = 400
                /\ resp.error = <<"Invalid", "order", "payload">>
           ELSE GateAnswer

\* the gate passed on the session's cart and the handler rejected the payload
C11_Witness ==
    /\ OrderAnswered
    /\ ~req.hasItems
    /\ sessionCart # <<>>
    /\ hist.stage = "payload"
    /\ resp.status = 400

----------------------------------------------------------------------------
(* Properties of POST /api/cart/sync *)

\* a sync request whose body.cart is an array has been answered
SyncAnswered ==
    /\ pc = "responded"
    /\ hist.stage = "sync"
    /\ req.hasSession
    /\ req.isArray

\* C12 as claimed: a sync request whose cart is an array is answered ok:true
\* with a cleaned cart and a total, whatever the elements of the array are and
\* whether or not validation or a lookup fails; never with an error response.
C12_SyncNeverFails ==
    SyncAnswered =>
        /\ resp.status = 200
        /\ resp.ok
        /\ resp.error = <<>>
        /\ resp.total.t = "num"

\* C13: when strict validation of the cleaned cart fails during a sync (a
\* backend fault included), the sync answers ok:true, the session cart is the
\* cleaned cart and the total is the sum of the client's price x quantity over
\* the cleaned cart; when validation succeeds the total is the validator's.
C13_SyncFallsBackToClientTotal ==
    (SyncAnswered /\ val.caller = "sync") =>
        /\ val.state \in {"threw", "returned"}
        /\ resp.ok
        /\ resp.status = 200
        /\ resp.cart = req.items
        /\ sessionCart = resp.cart
        /\ val.state = "threw" => resp.total = Num(SumLines(resp.cart))
        /\ val.state = "returned" => resp.total = val.recalculatedTotal

\* a sync whose lookup threw, answered with the client-side total of two lines
C13_Witness ==
    /\ SyncAnswered
    /\ val.state = "threw"
    /\ hist.fault
    /\ Len(resp.cart) = 2
    /\ resp.ok
    /\ resp.total = Num(SumLines(resp.cart))
    /\ resp.total.v > 0

\* the raw line is not dropped: it has a name, a quantity and a price
KeptLine(line) ==
    /\ line.name # <<>>
    /\ ~(line.quantity.t = "undef" \/ line.quantity = Num(0))
    /\ ~(line.price.t = "undef" \/ line.price = Num(0))

\* the sum of the quantities of the lines with the key
RECURSIVE QuantitySum(_, _)
QuantitySum(lines, key) ==
    IF lines = <<>> THEN 0
    ELSE (IF IdentityKey(Head(lines)) = key THEN Head(lines).quantity.v ELSE 0)
             + QuantitySum(Tail(lines), key)

\* the positions of the lines that are the first with their key
FirstOccurrences(lines) ==
    {i \in 1..Len(lines) :
        \A j \in 1..(i - 1) : IdentityKey(lines[j]) # IdentityKey(lines[i])}

\* the k-th smallest member of a set of positions
Nth(positions, k) ==
    CHOOSE i \in positions : Cardinality({j \in positions : j <= i}) = k

\* C20: for raw lines with positive integer quantities, the cleaned cart has
\* exactly one line per identity key of the non-dropped raw lines, in order of
\* first occurrence, with the product, name and price of the first raw line of
\* that key and the sum of the quantities of all raw lines of that key.
C20_CleanedCartMergesByKey ==
    LET kept == SelectSeq(req.cart, KeptLine)
        first == FirstOccurrences(kept)
    IN  (/\ SyncAnswered
         /\ resp.ok
         /\ \A i \in 1..Len(kept) :
               kept[i].quantity.v > 0 /\ kept[i].quantity.v % 2 = 0) =>
            /\ Len(resp.cart) = Cardinality(first)
            /\ \A k \in 1..Len(resp.cart) :
                  LET line == kept[Nth(first, k)]
                  IN  /\ resp.cart[k].product = line.product
                      /\ resp.cart[k].name = line.name
                      /\ resp.cart[k].price = line.price
                      /\ resp.cart[k].quantity =
                             Num(QuantitySum(kept, IdentityKey(line)))

\* two raw lines of one key and different prices merged into one line
C20_Witness ==
    /\ SyncAnswered
    /\ resp.ok
    /\ Len(req.cart) = 2
    /\ req.cart[1].price # req.cart[2].price
    /\ Len(resp.cart) = 1
    /\ resp.cart[1].price = req.cart[1].price
    /\ resp.cart[1].quantity = Num(req.cart[1].quantity.v + req.cart[2].quantity.v)

----------------------------------------------------------------------------
(* Properties of POST /api/cart/validate *)

\* a validate request whose body.cart is an array has been answered
DiffAnswered ==
    /\ pc = "responded"
    /\ hist.stage = "diff"
    /\ req.isArray

\* the request was answered with a diff result
DiffReturned == DiffAnswered /\ resp.status = 200

\* what the catalog lookup issued for input line i returned
LookedUp(i) ==
    LET j == CHOOSE j \in 1..Len(hist.lookups) : hist.lookups[j].line = i
    IN  hist.lookups[j].outcome.product

\* input line i is removed: a field is missing, or its productRef does not
\* resolve
LineRemoved(i) ==
    \/ ~KeptLine(req.cart[i])
    \/ (req.cart[i].product # NoRef /\ ~LookedUp(i).found)

ReasonRemoved(i) ==
    IF ~KeptLine(req.cart[i]) THEN "Invalid item data"
    ELSE "Product no longer available"

\* input line i is kept, referenced, and claims a price more than 0.01 away
\* from the catalog's
LineUpdated(i) ==
    /\ ~LineRemoved(i)
    /\ req.cart[i].product # NoRef
    /\ \/ LookedUp(i).price.v - req.cart[i].price.v > 10
       \/ req.cart[i].price.v - LookedUp(i).price.v > 10

\* C14: the diff partitions the input lines, in order, into removedItems
\* (reason 'Invalid item data' for a missing field, 'Product no longer
\* available' for a productRef that does not resolve) and validatedCart; a
\* kept referenced line is in updatedItems, with the claimed and the catalog
\* price, and has its price corrected iff the two differ by more than 0.01;
\* kept referenced lines carry the catalog's name; hasChanges is true iff
\* removedItems or updatedItems is non-empty.
C14_DiffPartitionsLines ==
    DiffReturned =>
        LET n == Len(req.cart)
            removed == {i \in 1..n : LineRemoved(i)}
            kept == (1..n) \ removed
            updated == {i \in 1..n : LineUpdated(i)}
        IN  /\ Len(resp.removedItems) = Cardinality(removed)
            /\ Len(resp.validatedCart) = Cardinality(kept)
            /\ Len(resp.updatedItems) = Cardinality(updated)
            /\ \A k \in 1..Len(resp.removedItems) :
                  LET i == Nth(removed, k)
                  IN  /\ resp.removedItems[k].item = req.cart[i]
                      /\ resp.removedItems[k].reason = ReasonRemoved(i)
            /\ \A k \in 1..Len(resp.validatedCart) :
                  LET i == Nth(kept, k)
                      line == resp.validatedCart[k]
                  IN  /\ line.product = req.cart[i].product
                      /\ line.quantity = req.cart[i].quantity
                      /\ line.name = IF line.product = NoRef THEN req.cart[i].name
                                     ELSE LookedUp(i).name
                      /\ line.price = IF i \in updated THEN LookedUp(i).price
                                      ELSE req.cart[i].price
            /\ \A k \in 1..Len(resp.updatedItems) :
                  LET i == Nth(updated, k)
                  IN  /\ resp.updatedItems[k].item = req.cart[i]
                      /\ resp.updatedItems[k].oldPrice = req.cart[i].price
                      /\ resp.updatedItems[k].newPrice = LookedUp(i).price
            /\ resp.hasChanges <=> (removed # {} \/ updated # {})

\* a diff with a removed line and a kept line whose price was corrected
C14_Witness ==
    /\ DiffReturned
    /\ Len(req.cart) = 2
    /\ Len(resp.removedItems) = 1
    /\ resp.removedItems[1].reason = "Product no longer available"
    /\ Len(resp.updatedItems) = 1
    /\ Len(resp.validatedCart) = 1
    /\ resp.validatedCart[1].price = resp.updatedItems[1].newPrice
    /\ resp.validatedCart[1].price # resp.updatedItems[1].oldPrice
    /\ resp.hasChanges

\* C15 as claimed: with the catalog unchanged (products priced 0 included),
\* the diff of the validatedCart a diff returned has hasChanges false, empty
\* removedItems and updatedItems, and a validatedCart equal to its input.
C15_DiffIsIdempotent ==
    (DiffReturned /\ hist.rerun) =>
        /\ ~resp.hasChanges
        /\ resp.removedItems = <<>>
        /\ resp.updatedItems = <<>>
        /\ resp.validatedCart = req.cart

\* C16 as claimed: for every array cart and every behaviour of the catalog
\* lookup (found, not found, a thrown backend fault) the validate request is
\* answered with a diff result, never with an error response.
C16_DiffNeverFails ==
    (DiffAnswered /\ \A i \in 1..Len(req.cart) : ~IsNull(req.cart[i])) =>
        /\ resp.status = 200
        /\ resp.error = <<>>

----------------------------------------------------------------------------
(* Order of the checks of strict validation *)

\* line k repeats the identity key of an earlier line
RepeatsKey(items, k) ==
    \E j \in 1..(k - 1) : IdentityKey(items[j]) = IdentityKey(items[k])

\* what the lookup issued for line k did, "none" if none was issued
LookupKind(k) ==
    IF LookupsOf(k) = {} THEN "none"
    ELSE LET out == hist.lookups[CHOOSE j \in LookupsOf(k) : TRUE].outcome
         IN  IF out.kind = "throw" THEN "throw"
             ELSE IF out.product.found THEN "found" ELSE "null"

\* the first check line k fails, in the order MissingField, DuplicateProduct,
\* InvalidQuantity, then the lookup for a referenced line or InvalidPrice for
\* a manual one; "none" if it passes them all
FirstDefect(items, k) ==
    IF ~KeptLine(items[k]) THEN "MissingField"
    ELSE IF RepeatsKey(items, k) THEN "DuplicateProduct"
    ELSE IF NotPositiveInteger(items[k].quantity) THEN "InvalidQuantity"
    ELSE IF items[k].product # NoRef
    THEN (IF LookupKind(k) = "null" THEN "ProductNotFound"
          ELSE IF LookupKind(k) = "throw" THEN "BackendFailure"
          ELSE "none")
    ELSE IF items[k].price.v <= 0 \/ items[k].price.v > 10000000
    THEN "InvalidPrice"
    ELSE "none"

\* C18: strict validation reports the error of the earliest line, in cart
\* order, that has a defect; within the line the checks fire in the order
\* MissingField, DuplicateProduct, InvalidQuantity, then the lookup
\* (ProductNotFound, BackendFailure) or InvalidPrice; no lookup is issued for
\* a line after the failing one, and the lines validated before it are not
\* returned: the function ends with the error alone.
C18_FirstFatalInLineOrder ==
    pc = "validated" =>
        /\ val.state \in {"returned", "threw"}
        /\ val.state = "returned" =>
              /\ \A k \in 1..Len(req.items) : FirstDefect(req.items, k) = "none"
              /\ Len(val.validatedItems) = Len(req.items)
        /\ val.state = "threw" =>
              /\ val.i \in 1..Len(req.items)
              /\ \A k \in 1..(val.i - 1) : FirstDefect(req.items, k) = "none"
              /\ FirstDefect(req.items, val.i) # "none"
              /\ ErrorKind(val.err) = FirstDefect(req.items, val.i)
              /\ Len(val.validatedItems) = val.i - 1
              /\ \A j \in 1..Len(hist.lookups) : hist.lookups[j].line <= val.i
              /\ \A k \in 1..Len(req.items) :
                    LookupKind(k) # "none" =>
                        ~(FirstDefect(req.items, k) \in
                            {"MissingField", "DuplicateProduct", "InvalidQuantity"})

\* the second line repeats the first one's key and has a bad quantity and a
\* bad price too: DuplicateProduct is reported, after the first line passed
C18_Witness ==
    /\ pc = "validated"
    /\ val.state = "threw"
    /\ val.i = 2
    /\ ErrorKind(val.err) = "DuplicateProduct"
    /\ NotPositiveInteger(req.items[2].quantity)
    /\ req.items[2].price.v < 0
    /\ Len(val.validatedItems) = 1

\* line k is a manual line with a name, a positive integer quantity and a key
\* no other line has, and validation got as far as line k
ManualLineChecked(k) ==
    /\ pc = "validated"
    /\ req.items[k].product = NoRef
    /\ req.items[k].name # <<>>
    /\ req.items[k].quantity.t = "num"
    /\ req.items[k].quantity.v > 0
    /\ req.items[k].quantity.v % 2 = 0
    /\ \A j \in 1..Len(req.items) :
          j # k => IdentityKey(req.items[j]) # IdentityKey(req.items[k])
    /\ Len(val.validatedItems) >= k - 1
    /\ val.state = "threw" => val.i >= k

\* validation failed at line k with InvalidPrice
FailsInvalidPrice(k) ==
    val.state = "threw" /\ val.i = k /\ ErrorKind(val.err) = "InvalidPrice"

\* line k was validated with the client's price
KeepsClientPrice(k) ==
    /\ Len(val.validatedItems) >= k
    /\ val.validatedItems[k].price = req.items[k].price

\* C19 as claimed: such a manual line fails with InvalidPrice iff its price is
\* <= 0 or > 10000; otherwise it is validated with the client's price.
C19_ManualPriceRule ==
    \A k \in 1..Len(req.items) :
        ManualLineChecked(k) =>
            LET p == req.items[k].price
                bad == p.t = "num" /\ (p.v <= 0 \/ p.v > 10000000)
            IN  /\ FailsInvalidPrice(k) <=> bad
                /\ ~bad => KeepsClientPrice(k)

\* C19 as amended: such a manual line fails with InvalidPrice iff its price is
\* < 0 or > 10000, and with MissingField if its price is 0 or absent;
\* otherwise it is validated with the client's price.
C19_ManualPriceRuleNonZero ==
    \A k \in 1..Len(req.items) :
        ManualLineChecked(k) =>
            LET p == req.items[k].price
                bad == p.t = "num" /\ (p.v < 0 \/ p.v > 10000000)
                none == p.t = "undef" \/ p = Num(0)
            IN  /\ FailsInvalidPrice(k) <=> bad
                /\ none => (/\ val.state = "threw"
                            /\ val.i = k
                            /\ ErrorKind(val.err) = "MissingField")
                /\ (~bad /\ ~none) => KeepsClientPrice(k)

\* a second, manual line rejected for a price above the ceiling
C19_Witness ==
    /\ Len(req.items) = 2
    /\ ManualLineChecked(2)
    /\ FailsInvalidPrice(2)
    /\ req.items[2].price.v > 10000000

\* C6 as amended: a cart whose only defect is a line with a negative or a
\* non-integer quantity fails strict validation with InvalidQuantity; a
\* quantity of 0 is taken for a missing field and fails with MissingField.
C6_BadQuantityNonZero ==
    \A k \in 1..Len(req.items) :
        (pc = "validated" /\ QuantityOnlyDefect(req.items, k)) =>
            /\ val.state = "threw"
            /\ val.i = k
            /\ ErrorKind(val.err) =
                  (IF req.items[k].quantity = Num(0) THEN "MissingField"
                   ELSE "InvalidQuantity")

\* a second line with a fractional quantity rejected with InvalidQuantity
C6_Witness ==
    /\ pc = "validated"
    /\ Len(req.items) = 2
    /\ QuantityOnlyDefect(req.items, 2)
    /\ req.items[2].quantity = Num(3)
    /\ val.state = "threw"
    /\ ErrorKind(val.err) = "InvalidQuantity"

----------------------------------------------------------------------------
(* Order of the stages of POST /api/orders *)

\* the body lacks customerName, email or a non-empty items array
PayloadMissing ==
    \/ ~Provided(req.form.customerName)
    \/ ~Provided(req.form.email)
    \/ ~req.hasItems
    \/ req.items = <<>>

\* the form breaks a rule, or its validation threw
FormFails ==
    \/ \E rule \in Rules : RuleViolated(rule, req.form)
    \/ hist.form.threw

\* the order request in flight has passed the EmptyCart gate
PastGate ==
    /\ pc \in {"lookup", "create", "responded"}
    /\ hist.stage \in {"payload", "form", "cart", "total", "create", "clear",
                       "done"}

\* C17: the stages run in the order payload, form, cart validation, total
\* reconciliation, persistence, cart-clear, response.  A request is rejected
\* at the first stage that fails; no lookup is issued for a request that fails
\* the payload or the form stage; TotalMismatch is answered only after cart
\* validation returned; an order is persisted only after the payload, form
\* and cart stages passed and the total check did not reject.
C17_StagesInOrder ==
    PastGate =>
        /\ PayloadMissing =>
              /\ hist.stage = "payload"
              /\ resp = Reject(400, <<"Invalid", "order", "payload">>)
        /\ (~PayloadMissing /\ FormFails) => hist.stage = "form"
        /\ hist.stage \in {"payload", "form"} =>
              /\ hist.lookups = <<>>
              /\ val.state = "none"
              /\ orders = hist.ordersAtStart
        /\ hist.stage = "payload" => PayloadMissing
        /\ hist.stage = "form" => (~PayloadMissing /\ FormFails)
        /\ hist.stage = "cart" =>
              /\ ~PayloadMissing /\ ~FormFails
              /\ val.state \in {"await", "threw"}
              /\ req.totalAmount = Undef
              /\ orders = hist.ordersAtStart
        /\ (pc = "responded" /\ val.state = "threw") => hist.stage = "cart"
        /\ hist.stage \in {"total", "create", "clear", "done"} =>
              /\ ~PayloadMissing /\ ~FormFails
              /\ val.state = "returned"
        /\ (pc = "responded" /\ hist.stage = "total") =>
              /\ resp.error = <<"Total", "amount", "mismatch">>
              /\ orders = hist.ordersAtStart
        /\ pc = "create" => (hist.stage = "total" /\ orders = hist.ordersAtStart)
        /\ Persisted =>
              /\ hist.stage \in {"clear", "done"}
              /\ ~(/\ req.totalAmount.t = "num"
                   /\ ~WithinTolerance(val.recalculatedTotal, req.totalAmount))
        /\ resp.status = 201 => (hist.stage = "done" /\ Persisted)

\* a TotalMismatch answered after the lookups of a two-line cart returned
C17_Witness ==
    /\ pc = "responded"
    /\ hist.stage = "total"
    /\ Len(hist.lookups) = 2
    /\ val.state = "returned"
    /\ resp.status = 400


----------------------------------------------------------------------------
(* Properties of the cleaned cart *)

\* a quantity that is an integer >= 1 (quantities are in halves)
PositiveInteger(q) == q.t = "num" /\ q.v >= 2 /\ q.v % 2 = 0

\* C21 as claimed: every line of the cleaned cart a sync returns, which is
\* also the cart stored in the session, has a quantity that is an integer
\* >= 1, for every raw cart: lines merged from duplicates and raw lines with
\* fractional or negative quantities included.
C21_CleanedQuantitiesPositiveIntegers ==
    (SyncAnswered /\ resp.ok) =>
        /\ sessionCart = resp.cart
        /\ \A k \in 1..Len(resp.cart) : PositiveInteger(resp.cart[k].quantity)


----------------------------------------------------------------------------
(* Admin product routes: the catalog changes while requests are in flight *)

\* changes of the catalog recorded per order request
MaxCatalogChanges == 2

\* parseFloat(text) in thousandths: leading blanks, a sign, digits and a
\* fraction (its first three digits); NaN when no digit is found
ParseFloat(text) ==
    LET RECURSIVE DigitRun(_, _)
        DigitRun(s, i) ==
            IF i <= Len(s) /\ IsDigit(s[i]) THEN 1 + DigitRun(s, i + 1) ELSE 0
        DigitValue(c) ==
            CHOOSE d \in 0..9 :
                <<"0", "1", "2", "3", "4", "5", "6", "7", "8", "9">>[d + 1] = c
        RECURSIVE Decimal(_)
        Decimal(ds) ==
            IF ds = <<>> THEN 0
            ELSE 10 * Decimal(SubSeq(ds, 1, Len(ds) - 1)) + DigitValue(ds[Len(ds)])
        s == TrimLeft(text)
        signed == s # <<>> /\ s[1] \in {"-", "+"}
        u == IF signed THEN Tail(s) ELSE s
        n == DigitRun(u, 1)
        f == IF Len(u) > n /\ u[n + 1] = "." THEN DigitRun(u, n + 2) ELSE 0
        fraction == SubSeq(SubSeq(u, n + 2, n + 1 + f) \o <<"0", "0", "0">>, 1, 3)
        magnitude == 1000 * Decimal(SubSeq(u, 1, n)) + Decimal(fraction)
    IN  IF n = 0 /\ f = 0 THEN NaN
        ELSE Num(IF s[1] = "-" THEN 0 - magnitude ELSE magnitude)

\* adminOnly: the session, header or query carries the admin's email
adminOnly(fromSession, fromHeader, fromQuery) ==
    "admin@shop.com" \in {fromSession, fromHeader, fromQuery}

\* the catalog has changed: an order request in flight has seen one more state
CatalogChanged ==
    /\ pc \in {"lookup", "create"} => Len(hist.catalogs) <= MaxCatalogChanges
    /\ hist' = IF pc \in {"lookup", "create"} /\ hist.catalogs # <<>>
               THEN [hist EXCEPT !.catalogs = Append(@, catalog')]
               ELSE hist
    /\ UNCHANGED <<orders, sessionCart, pc, req, val, resp>>

\* POST /admin/products/:id of an existing product:
\* Product.findByIdAndUpdate(id, { name, price: parseFloat(price) || 0 })
UpdateProduct(id, name, price) ==
    /\ catalog[id].found
    /\ catalog' = [catalog EXCEPT ![id] =
                      Product(name, IF Falsy(ParseFloat(price)) THEN Num(0)
                                    ELSE ParseFloat(price))]
    /\ catalog' # catalog
    /\ CatalogChanged

\* POST /admin/products/:id/delete of an existing product:
\* Product.findByIdAndDelete(id)
DeleteProduct(id) ==
    /\ catalog[id].found
    /\ catalog' = [catalog EXCEPT ![id] = NoProduct]
    /\ CatalogChanged

\* order requests of referenced lines claiming the catalog's first prices
AdminCarts ==
    LET tea == Line("P1", NameTea, Num(2), Num(15000))
        mug == Line("P2", NameMug, Num(2), Num(20000))
    IN  {c \in UNION {[1..n -> {tea, mug}] : n \in 1..MaxCartLen} :
            \A i, j \in 1..Len(c) : i # j => c[i] # c[j]}

NextAdmin ==
    \/ /\ pc = "idle"
       /\ \E items \in AdminCarts : PostOrders(Body(ValidForm, TRUE, items), TRUE)
    \/ LookupStep
    \/ CreateStep
    \/ Finish
    \/ \E id \in Refs : \E price \in {<<" ", "1", "2", ".", "5">>, <<"a">>} :
           \E email \in {"admin@shop.com", "ann@shop.com"} :
               /\ adminOnly(email, "", "")
               /\ UpdateProduct(id, catalog[id].name, price)
    \/ \E id \in Refs : \E email \in {"admin@shop.com", "ann@shop.com"} :
           /\ adminOnly("", email, "")
           /\ DeleteProduct(id)

SpecAdmin == Init /\ [][NextAdmin]_vars


----------------------------------------------------------------------------
(* Properties of the catalog reads of one order request *)

\* every referenced line of the order has the name and price the product has
\* in the catalog state c
PricedFrom(order, c) ==
    \A k \in 1..Len(order.items) :
        order.items[k].product # NoRef =>
            /\ c[order.items[k].product].found
            /\ order.items[k].price = c[order.items[k].product].price

\* C22 as claimed: the prices of the order a request persists all come from
\* one catalog state that existed at some instant during that request, also
\* when catalog updates interleave with the request's per-line lookups.
C22_OrderPricesFromOneCatalogState ==
    (pc = "responded" /\ Persisted) =>
        \E n \in 1..Len(hist.catalogs) :
            PricedFrom(orders[Len(orders)], hist.catalogs[n])


----------------------------------------------------------------------------
(* Properties of the session's working cart *)

\* C23: the session cart changes only when a sync stores the cleaned cart of
\* an array and when an order request that persisted its order empties it;
\* diff validation, every rejected order request and every rejected sync
\* leave it as it was.
C23_SessionCartWrittenBySyncAndCommit ==
    [][sessionCart' # sessionCart =>
          \/ /\ pc = "idle"
             /\ hist'.stage = "sync"
             /\ req'.hasSession /\ req'.isArray
             /\ sessionCart' = req'.items
             /\ resp'.status \in {0, 200}
          \/ /\ pc = "create"
             /\ Len(orders') = Len(orders) + 1
             /\ resp'.status = 201
             /\ sessionCart' = <<>>]_vars

\* an order request rejected by strict validation while the session holds
\* the cart an earlier sync stored
C23_Witness ==
    /\ pc = "responded"
    /\ hist.stage = "cart"
    /\ resp.status = 400
    /\ Len(sessionCart) = 2


----------------------------------------------------------------------------
(* Properties of the persisted orders *)

\* C24: no persisted order contains two item lines that share an identity key
\* (productRef if present, else name), and the quantity of every persisted
\* line is a positive integer.
C24_OrderLinesDistinctAndCounted ==
    \A k \in 1..Len(orders) :
        /\ ~SharesKey(orders[k].items)
        /\ \A i \in 1..Len(orders[k].items) :
              PositiveInteger(orders[k].items[i].quantity)

\* a persisted order of a referenced line and a manual line
C24_Witness ==
    /\ pc = "responded"
    /\ Persisted
    /\ Len(orders[Len(orders)].items) = 2
    /\ orders[Len(orders)].items[1].product # NoRef
    /\ orders[Len(orders)].items[2].product = NoRef


----------------------------------------------------------------------------
(* The checkout page: diff validation, then the order request *)

\* submitOrder of checkout.js after a diff that reports no change: the order
\* request carries the validatedCart as items and the recalculatedTotal as
\* totalAmount
SubmitOrder ==
    /\ pc = "responded"
    /\ hist.stage = "diff"
    /\ resp.status = 200
    /\ ~resp.hasChanges
    /\ resp.validatedCart # <<>>
    /\ \E form \in ValidForms :
           PostOrders([form |-> form, hasItems |-> TRUE,
                       items |-> resp.validatedCart,
                       totalAmount |-> resp.recalculatedTotal], TRUE)

NextCheckout ==
    \/ /\ pc = "idle"
       /\ \E body \in DiffBodies : PostCartValidate(body, 0, FALSE)
    \/ SubmitOrder
    \/ LookupStep
    \/ CreateStep
    \/ Finish

SpecCheckout == Init /\ [][NextCheckout]_vars

\* C25 as claimed: with the catalog unchanged, a valid form and no backend
\* fault, the order request the checkout page sends after a diff validation
\* that reported hasChanges = false (the validatedCart as items, the
\* recalculatedTotal as client total) passes strict validation and the total
\* check and is persisted, for every cart: carts with duplicate keys,
\* non-integer quantities and claimed prices within 0.01 of the catalog's
\* included.
C25_UnchangedDiffThenOrderPersists ==
    (pc = "responded" /\ req.checkout /\ ~hist.fault) =>
        /\ Persisted
        /\ resp.status = 201


----------------------------------------------------------------------------
(* Properties of the total a sync returns *)

\* the validated cart with every referenced line at the price the catalog
\* lookup of that line returned
AtCatalogPrices(cart) ==
    [k \in 1..Len(cart) |->
        IF cart[k].product # NoRef
        THEN LET j == CHOOSE n \in 1..Len(hist.lookups) : hist.lookups[n].line = k
             IN  [cart[k] EXCEPT !.price = hist.lookups[j].outcome.product.price]
        ELSE cart[k]]

\* C26 as claimed: in every response of a sync the returned total is the sum
\* of price x quantity over the lines of the returned cart, which is also the
\* session cart, whether validation of the cleaned cart succeeded or failed.
C26_SyncTotalIsSumOfReturnedCart ==
    (SyncAnswered /\ resp.ok) =>
        /\ sessionCart = resp.cart
        /\ resp.total = Num(SumLines(resp.cart))

\* C26 amended: the returned cart is the session cart; when validation of the
\* cleaned cart failed, or the cleaned cart is empty, the returned total is
\* the sum of price x quantity over the returned cart; when validation
\* succeeded it is that sum with every referenced line counted at the price
\* its catalog lookup returned, the returned lines keeping the client's prices.
C26_SyncTotalAtCatalogPrices ==
    (SyncAnswered /\ resp.ok) =>
        /\ sessionCart = resp.cart
        /\ val.state # "returned" => resp.total = Num(SumLines(resp.cart))
        /\ val.state = "returned" =>
              /\ resp.total = Num(SumLines(AtCatalogPrices(resp.cart)))
              /\ \A k \in 1..Len(resp.cart) :
                    \E j \in 1..Len(req.cart) :
                        /\ resp.cart[k].product = req.cart[j].product
                        /\ resp.cart[k].price = req.cart[j].price

\* a validated sync of two lines whose total is not the sum over the cart it
\* returns
C26_Witness ==
    /\ SyncAnswered
    /\ resp.ok
    /\ val.state = "returned"
    /\ Len(resp.cart) = 2
    /\ resp.total = Num(SumLines(AtCatalogPrices(resp.cart)))
    /\ resp.total # Num(SumLines(resp.cart))


----------------------------------------------------------------------------
(* Properties of the duplicate check *)

\* two referenced lines with the same productRef, or two manual lines with
\* exactly the same name
SameProduct(a, b) ==
    \/ a.product # NoRef /\ b.product # NoRef /\ a.product = b.product
    \/ a.product = NoRef /\ b.product = NoRef /\ a.name = b.name

\* C27 as claimed: strict validation fails with DuplicateProduct only when
\* two lines of the cart are both referenced lines with the same productRef
\* or both manual lines with exactly the same name; a manual line and a
\* referenced line are never treated as duplicates of each other.
C27_DuplicateOnlyWithinKind ==
    (/\ pc = "validated"
     /\ val.state = "threw"
     /\ ErrorKind(val.raised) = "DuplicateProduct") =>
        \E i \in 1..(val.i - 1) : SameProduct(req.items[i], req.items[val.i])


----------------------------------------------------------------------------
(* Properties of the error classification *)

\* the cart with its lines renamed
Renamed(items, names) ==
    [k \in 1..Len(items) |-> [items[k] EXCEPT !.name = names[k]]]

\* C28 as claimed: the HTTP status of a rejected order request depends on the
\* kind of the defect only, not on the text of the item names: an order
\* request that differs from the rejected one only in the names of its lines
\* and fails strict validation with the same error kind at the same line is
\* answered with the same status. (Stated for rejections reached with no
\* catalog lookup, where strict validation is a function of the cart.)
C28_StatusIndependentOfNames ==
    (/\ pc = "responded"
     /\ hist.stage = "cart"
     /\ val.caller = "orders"
     /\ val.state = "threw"
     /\ hist.lookups = <<>>) =>
        \A names \in [1..Len(req.items) -> {NameMug, NameTea, NameMagic}] :
            LET other == ValidateLoop(Renamed(req.items, names), 1,
                                      StartVal("orders"))
            IN  (/\ other.state = "threw"
                 /\ other.i = val.i
                 /\ ErrorKind(other.raised) = ErrorKind(val.raised)) =>
                    HandlerCatch(other.err).status = resp.status


----------------------------------------------------------------------------
(* Properties of what an order stores *)

\* C29: a persisted order holds only customerName, email, items (each with
\* name, quantity, price and an optional product), totalAmount, status and
\* createdAt: no payment field, no other optional customer field and no extra
\* field of a client's cart line; and the order a request creates has status
\* Pending.
C29_OrderStoresOnlyOrderFields ==
    /\ \A k \in 1..Len(orders) :
          /\ DOMAIN orders[k] \subseteq
                {"customerName", "email", "items", "totalAmount", "status",
                 "createdAt"}
          /\ \A i \in 1..Len(orders[k].items) :
                DOMAIN orders[k].items[i] \subseteq
                    {"name", "quantity", "price", "product"}
    /\ (pc = "responded" /\ Persisted) => orders[Len(orders)].status = "Pending"

\* an order persisted for a request that paid by card and whose cart line
\* carried a field of the client's own
C29_Witness ==
    /\ pc = "responded"
    /\ Persisted
    /\ Truthy(req.form.cardNumber)
    /\ \E i \in 1..Len(req.items) : "discount" \in DOMAIN req.items[i]


----------------------------------------------------------------------------
(* Properties of cleaning a cleaned cart *)

\* C30 as claimed: the cart cleaning of a sync is idempotent: cleaning the
\* cleaned cart a sync returned yields that cleaned cart again, with the same
\* lines in the same order and with the same quantities, for every raw cart.
C30_CleaningIsIdempotent ==
    (SyncAnswered /\ resp.ok) =>
        LET again == CleanLoop(resp.cart, 1, <<>>, {})
        IN  /\ ~again.threw
            /\ again.cleanedCart = resp.cart

====
